---- MODULE Spec2Model ----
(***************************************************************************)
(* The code-analysis pipeline of the AI Code Debugger server               *)
(* (utils/debuggerLogic.js): runCodeAnalysis dispatches on the language    *)
(* tag to the ESLint, Pylint or g++ strategy; the two subprocess           *)
(* strategies write a temporary file, spawn the tool, and settle their     *)
(* promise from the child's 'close' and 'error' handlers; getAIExplanation *)
(* adds the optional Gemini explanation.                                   *)
(*                                                                         *)
(* JavaScript strings that the code inspects (language tag, stderr, lint   *)
(* messages, rule identifiers) are sequences of one-character strings.     *)
(* Texts that the code only builds (template literals, fixed messages) are *)
(* tuples of their parts.                                                  *)
(***************************************************************************)
EXTENDS Integers, Sequences, FiniteSets, TLC

----------------------------------------------------------------------------
(* Bounds of the model                                                      *)

\* Date.now() returns the values 0..MaxClock
MaxClock == 1
\* runCodeAnalysis is called at most MaxCalls times, one call after the other
MaxCalls == 2
\* the g++ child writes at most MaxStderrLines lines to stderr
MaxStderrLines == 2
\* ESLint reports at most MaxLintMessages messages
MaxLintMessages == 2

----------------------------------------------------------------------------
(* JavaScript values and String.prototype                                   *)

null == <<"null">>
undefined == <<"undefined">>

UpperCase == <<"A","B","C","D","E","F","G","H","I","J","K","L","M",
               "N","O","P","Q","R","S","T","U","V","W","X","Y","Z">>
LowerCase == <<"a","b","c","d","e","f","g","h","i","j","k","l","m",
               "n","o","p","q","r","s","t","u","v","w","x","y","z">>

toLowerCaseChar(c) ==
    IF \E k \in 1..26 : UpperCase[k] = c
    THEN LowerCase[CHOOSE k \in 1..26 : UpperCase[k] = c]
    ELSE c

\* String.prototype.toLowerCase
toLowerCase(s) == [k \in 1..Len(s) |-> toLowerCaseChar(s[k])]

\* the text p occurs in s at position k (1-based)
OccursAt(s, p, k) ==
    /\ k >= 1
    /\ k + Len(p) - 1 <= Len(s)
    /\ \A j \in 1..Len(p) : s[k + j - 1] = p[j]

\* String.prototype.includes
includes(s, p) == \E k \in 1..(Len(s) + 1) : OccursAt(s, p, k)

\* white space of \s and of String.prototype.trim
IsWhiteSpace(c) == c \in {" ", "\t", "\n", "\r"}
\* the line terminators '.' does not match
IsLineTerminator(c) == c \in {"\n", "\r"}
IsDigit(c) == c \in {"0","1","2","3","4","5","6","7","8","9"}

\* String.prototype.trim
trim(s) ==
    IF \A k \in 1..Len(s) : IsWhiteSpace(s[k]) THEN <<>>
    ELSE LET first == CHOOSE k \in 1..Len(s) :
                        /\ ~IsWhiteSpace(s[k])
                        /\ \A j \in 1..(k - 1) : IsWhiteSpace(s[j])
             last  == CHOOSE k \in 1..Len(s) :
                        /\ ~IsWhiteSpace(s[k])
                        /\ \A j \in (k + 1)..Len(s) : IsWhiteSpace(s[j])
         IN SubSeq(s, first, last)

\* String.prototype.split with a one-character separator
RECURSIVE split(_, _)
split(s, sep) ==
    IF \A k \in 1..Len(s) : s[k] # sep THEN <<s>>
    ELSE LET k == CHOOSE k \in 1..Len(s) :
                    s[k] = sep /\ \A j \in 1..(k - 1) : s[j] # sep
         IN <<SubSeq(s, 1, k - 1)>> \o split(SubSeq(s, k + 1, Len(s)), sep)

\* Array.prototype.join with a one-character separator
RECURSIVE join(_, _)
join(parts, sep) ==
    IF Len(parts) = 0 THEN <<>>
    ELSE IF Len(parts) = 1 THEN parts[1]
    ELSE parts[1] \o <<sep>> \o join(Tail(parts), sep)

DigitValue(c) ==
    CASE c = "0" -> 0 [] c = "1" -> 1 [] c = "2" -> 2 [] c = "3" -> 3
      [] c = "4" -> 4 [] c = "5" -> 5 [] c = "6" -> 6 [] c = "7" -> 7
      [] c = "8" -> 8 [] c = "9" -> 9

\* parseInt(s, 10) of a run of decimal digits
RECURSIVE parseInt(_)
parseInt(s) ==
    IF Len(s) = 0 THEN 0
    ELSE 10 * parseInt(SubSeq(s, 1, Len(s) - 1)) + DigitValue(s[Len(s)])

\* the objects of a sequence, as a set
Range(f) == {f[k] : k \in DOMAIN f}

\* all sequences over S of length at most n
SeqsUpTo(S, n) == UNION {[1..m -> S] : m \in 0..n}

----------------------------------------------------------------------------
(* Fixed texts of the program                                               *)

S_javascript == <<"j","a","v","a","s","c","r","i","p","t">>
S_python == <<"p","y","t","h","o","n">>
S_cplusplus == <<"c","+","+">>
S_cpp == <<"c","p","p">>
S_errorColon == <<"e","r","r","o","r",":">>
S_warningColon == <<"w","a","r","n","i","n","g",":">>
S_error == <<"e","r","r","o","r">>
S_warning == <<"w","a","r","n","i","n","g">>
S_text == <<"<","t","e","x","t",">">>
S_gppCompilation == <<"g","+","+","-","c","o","m","p","i","l","a","t","i","o","n">>
S_pylintNotRecognized == <<"'","p","y","l","i","n","t","'"," ","i","s"," ","n","o","t"," ","r","e","c","o","g","n","i","z","e","d">>
S_pylintNotFound == <<"c","o","m","m","a","n","d"," ","n","o","t"," ","f","o","u","n","d",":"," ","p","y","l","i","n","t">>
S_gppNotRecognized == <<"'","g","+","+","'"," ","i","s"," ","n","o","t"," ","r","e","c","o","g","n","i","z","e","d">>
S_gppNotFound == <<"c","o","m","m","a","n","d"," ","n","o","t"," ","f","o","u","n","d",":"," ","g","+","+">>

----------------------------------------------------------------------------
(* runCppAnalysis: the parser of g++'s stderr                               *)

\* the position after the longest run of digits (\d+) from k on
DigitsEnd(s, k) ==
    CHOOSE e \in k..(Len(s) + 1) :
        /\ \A j \in k..(e - 1) : IsDigit(s[j])
        /\ (e <= Len(s) => ~IsDigit(s[e]))

\* the position after the longest run of white space (\s*) from k on
WhiteSpaceEnd(s, k) ==
    CHOOSE e \in k..(Len(s) + 1) :
        /\ \A j \in k..(e - 1) : IsWhiteSpace(s[j])
        /\ (e <= Len(s) => ~IsWhiteSpace(s[e]))

\* :(\d+):(\d+):\s*(error|warning):\s*(.*)$ matched with its first ':' at c;
\* the groups 2..5, or null
MatchLocatedAt(line, c) ==
    LET n    == Len(line)
        d1   == DigitsEnd(line, c + 1)
        d2   == DigitsEnd(line, d1 + 1)
        w    == WhiteSpaceEnd(line, d2 + 1)
        word == IF OccursAt(line, S_error, w) THEN S_error
                ELSE IF OccursAt(line, S_warning, w) THEN S_warning
                ELSE <<>>
        c4   == w + Len(word)
        m    == WhiteSpaceEnd(line, c4 + 1)
    IN  IF /\ d1 > c + 1 /\ d1 <= n /\ line[d1] = ":"
           /\ d2 > d1 + 1 /\ d2 <= n /\ line[d2] = ":"
           /\ word # <<>>
           /\ c4 <= n /\ line[c4] = ":"
           /\ \A j \in m..n : ~IsLineTerminator(line[j])
        THEN <<SubSeq(line, c + 1, d1 - 1), SubSeq(line, d1 + 1, d2 - 1),
               word, SubSeq(line, m, n)>>
        ELSE null

\* line.match(/^(.*?):(\d+):(\d+):\s*(error|warning):\s*(.*)$/): the groups
\* 1..5 of the match whose group 1 is shortest, or null
matchLocated(line) ==
    LET ok(c) == /\ line[c] = ":"
                 /\ \A j \in 1..(c - 1) : ~IsLineTerminator(line[j])
                 /\ MatchLocatedAt(line, c) # null
    IN  IF \E c \in 1..Len(line) : ok(c)
        THEN LET c == CHOOSE c \in 1..Len(line) :
                        ok(c) /\ \A b \in 1..(c - 1) : ~ok(b)
             IN <<SubSeq(line, 1, c - 1)>> \o MatchLocatedAt(line, c)
        ELSE null

\* a forEach body that keeps the located lines only (what C9 excludes)
CppLineMessages_LocatedOnly(line) ==
    LET match == matchLocated(line) IN
    IF match # null THEN
        << [filePath |-> match[1],
            line     |-> parseInt(match[2]),
            column   |-> parseInt(match[3]),
            severity |-> IF match[4] = S_error THEN "error" ELSE "warning",
            message  |-> match[5],
            ruleId   |-> S_gppCompilation] >>
    ELSE << >>

\* the body of errorLines.forEach: the diagnostics one stderr line pushes
CppLineMessages(line) ==
    LET match == matchLocated(line) IN
    IF match # null THEN
        << [filePath |-> match[1],
            line     |-> parseInt(match[2]),
            column   |-> parseInt(match[3]),
            severity |-> IF match[4] = S_error THEN "error" ELSE "warning",
            message  |-> match[5],
            ruleId   |-> S_gppCompilation] >>
    ELSE IF includes(line, S_errorColon) THEN
        << [filePath |-> S_text, line |-> 0, column |-> 0,
            severity |-> "error", message |-> trim(line),
            ruleId   |-> S_gppCompilation] >>
    ELSE IF includes(line, S_warningColon) THEN
        << [filePath |-> S_text, line |-> 0, column |-> 0,
            severity |-> "warning", message |-> trim(line),
            ruleId   |-> S_gppCompilation] >>
    ELSE << >>

\* stderr.split('\n').forEach(...) from formattedMessages = []
RECURSIVE CppForEach(_)
CppForEach(errorLines) ==
    IF Len(errorLines) = 0 THEN << >>
    ELSE CppLineMessages(errorLines[1]) \o CppForEach(Tail(errorLines))

\* the formattedMessages of runCppAnalysis once 'close' has read stderr
CppFormattedMessages(stderr) ==
    IF stderr # <<>> THEN CppForEach(split(stderr, "\n")) ELSE << >>

\* the "g++ is not installed" test
CppToolMissing(stderr) ==
    /\ stderr # <<>>
    /\ includes(stderr, S_gppNotRecognized) \/ includes(stderr, S_gppNotFound)

\* a guard that looks at the diagnostics only (what C10 excludes)
CppCallsAI_OnDiagnosticsOnly(formattedMessages, exitCode) ==
    Len(formattedMessages) > 0

\* the test that guards the getAIExplanation call of runCppAnalysis
CppCallsAI(formattedMessages, exitCode) ==
    Len(formattedMessages) > 0 \/ exitCode # 0

----------------------------------------------------------------------------
(* The lookup table of explanations (a backquote of the source text is      *)
(* written as an apostrophe)                                                *)

errorExplanations == <<
    [key |-> <<"U","n","t","e","r","m","i","n","a","t","e","d"," ","s","t","r","i","n","g"," ","c","o","n","s","t","a","n","t">>,
     explanation |-> <<"This error occurs when a string literal (text enclosed in quotes) is not properly closed with its matching quote. For example, '\"Hello' is missing a closing '\"' or '''.">>,
     suggestion |-> <<"Ensure all your string literals start and end with matching single (''') or double ('\"') quotes.">>],
    [key |-> <<"U","n","e","x","p","e","c","t","e","d"," ","t","o","k","e","n">>,
     explanation |-> <<"This means there's a character or symbol where the JavaScript parser didn't expect it, often due to a syntax error or a typo.">>,
     suggestion |-> <<"Check for missing or extra punctuation (like parentheses, brackets, curly braces, or semicolons), typos in keywords, or incorrect operator usage around the reported line and column. This can also happen with invalid syntax for newer JavaScript features if 'ecmaVersion' is too low.">>],
    [key |-> <<"M","i","s","s","i","n","g"," ","s","e","m","i","c","o","l","o","n">>,
     explanation |-> <<"This is a basic syntax error where a semicolon (';') is expected at the end of a statement but is missing.">>,
     suggestion |-> <<"Add a semicolon (';') at the end of the problematic line to terminate the statement.">>],
    [key |-> <<"U","n","e","x","p","e","c","t","e","d"," ","e","n","d"," ","o","f"," ","i","n","p","u","t">>,
     explanation |-> <<"The JavaScript parser reached the end of the code unexpectedly. This often means a block (like a function, loop, or if statement) was started but not properly closed with a curly brace ('}').">>,
     suggestion |-> <<"Check for unclosed curly braces '{}', parentheses '()', or square brackets '[]'. Ensure all blocks are properly terminated.">>],
    [key |-> <<"n","o","-","u","n","d","e","f">>,
     explanation |-> <<"This error means you are trying to use a variable or function that has not been declared or imported in the current scope. ESLint cannot find its definition.">>,
     suggestion |-> <<"Declare the variable/function using 'const', 'let', or 'var' before using it. If it's a global variable (like 'document', 'window'), ensure your ESLint configuration's 'env' or 'globals' settings are correct. Check for typos in the variable/function name.">>],
    [key |-> <<"n","o","-","u","n","u","s","e","d","-","v","a","r","s">>,
     explanation |-> <<"This warning indicates that you have declared a variable or imported a module but are not using it anywhere in your code. Unused code can be a sign of a bug or unnecessary complexity.">>,
     suggestion |-> <<"Remove the unused variable/import or ensure it's being utilized in your logic to avoid dead code and improve readability.">>],
    [key |-> <<"s","e","m","i">>,
     explanation |-> <<"This rule enforces the use of semicolons (';') at the end of statements for consistency and to prevent potential automatic semicolon insertion (ASI) issues.">>,
     suggestion |-> <<"Add a semicolon (';') at the end of the problematic line. If you prefer not to use semicolons, you need to configure ESLint accordingly.">>],
    [key |-> <<"i","n","d","e","n","t">>,
     explanation |-> <<"This rule enforces a consistent indentation style (e.g., 2 or 4 spaces, or tabs) across your codebase. Inconsistent indentation can make code hard to read.">>,
     suggestion |-> <<"Adjust the indentation of the line to match the configured style (e.g., use 4 spaces instead of 2, or vice versa). Many IDEs can automatically format this.">>],
    [key |-> <<"q","u","o","t","e","s">>,
     explanation |-> <<"This rule enforces consistent use of single (''') or double ('\"') quotes for string literals. Consistency improves readability.">>,
     suggestion |-> <<"Change the quotes (single to double, or double to single) to match the configured style (e.g., use single quotes if 'quotes: ['error', 'single']' is set).">>],
    [key |-> <<"n","o","-","t","r","a","i","l","i","n","g","-","s","p","a","c","e","s">>,
     explanation |-> <<"This rule disallows extraneous whitespace at the end of lines.">>,
     suggestion |-> <<"Remove any trailing spaces at the end of the line.">>],
    [key |-> <<"e","o","l","-","l","a","s","t">>,
     explanation |-> <<"This rule enforces a newline character at the end of the file.">>,
     suggestion |-> <<"Add an empty line (newline character) at the very end of your file.">>]
>>

\* the explanationData a message starts with
defaultExplanation ==
    [explanation |-> <<"No specific explanation available for this error.">>,
     suggestion  |-> <<"Review the code at the reported line and column for syntax errors or logical inconsistencies. Search for the error message or rule ID online.">>]

\* JavaScript truthiness of a string, null or undefined
truthy(v) == v # null /\ v # undefined /\ v # <<>>

HasKey(k) == \E n \in DOMAIN errorExplanations : errorExplanations[n].key = k
EntryOf(k) ==
    errorExplanations[CHOOSE n \in DOMAIN errorExplanations :
                          errorExplanations[n].key = k]

\* a lookup that tries the substrings for every message without an exact
\* match, whether its ruleId is set or not
explanationDataOf_SubstringForAll(msg) ==
    IF truthy(msg.ruleId) /\ HasKey(msg.ruleId) THEN EntryOf(msg.ruleId)
    ELSE LET hit(n) == includes(msg.message, errorExplanations[n].key)
         IN IF \E n \in DOMAIN errorExplanations : hit(n)
            THEN errorExplanations[CHOOSE n \in DOMAIN errorExplanations :
                     hit(n) /\ \A m \in 1..(n - 1) : ~hit(m)]
            ELSE defaultExplanation

\* the explanationData runEsLintAnalysis chooses for one ESLint message
explanationDataOf(msg) ==
    IF truthy(msg.ruleId) /\ HasKey(msg.ruleId) THEN EntryOf(msg.ruleId)
    ELSE LET hit(n) == /\ ~truthy(msg.ruleId)
                       /\ includes(msg.message, errorExplanations[n].key)
         IN IF \E n \in DOMAIN errorExplanations : hit(n)
            THEN errorExplanations[CHOOSE n \in DOMAIN errorExplanations :
                     hit(n) /\ \A m \in 1..(n - 1) : ~hit(m)]
            ELSE defaultExplanation

----------------------------------------------------------------------------
(* runEsLintAnalysis                                                        *)

M_parseToken == <<"P","a","r","s","i","n","g"," ","e","r","r","o","r",":"," ","U","n","e","x","p","e","c","t","e","d"," ","t","o","k","e","n"," ","}">>
\* a rule the linted code enables itself, by a configuration comment
R_redeclare == <<"n","o","-","r","e","d","e","c","l","a","r","e">>
R_semi == <<"s","e","m","i">>
N_Identifier == <<"I","d","e","n","t","i","f","i","e","r">>

\* messages ESLint reports under the server's .eslintrc.js
LintMessages ==
    { [ruleId |-> R_semi, severity |-> 2, message |-> <<"M","i","s","s","i","n","g"," ","s","e","m","i","c","o","l","o","n",".">>,
       line |-> 1, column |-> 10, nodeType |-> <<"E","x","p","r","e","s","s","i","o","n","S","t","a","t","e","m","e","n","t">>],
      [ruleId |-> <<"n","o","-","u","n","u","s","e","d","-","v","a","r","s">>, severity |-> 1, message |-> <<"'","x","'"," ","i","s"," ","d","e","f","i","n","e","d"," ","b","u","t"," ","n","e","v","e","r"," ","u","s","e","d",".">>,
       line |-> 1, column |-> 5, nodeType |-> N_Identifier],
      [ruleId |-> <<"n","o","-","c","o","n","s","o","l","e">>, severity |-> 1, message |-> <<"U","n","e","x","p","e","c","t","e","d"," ","c","o","n","s","o","l","e"," ","s","t","a","t","e","m","e","n","t",".">>,
       line |-> 2, column |-> 1, nodeType |-> <<"M","e","m","b","e","r","E","x","p","r","e","s","s","i","o","n">>],
      [ruleId |-> R_redeclare, severity |-> 2, message |-> <<"'","q","u","o","t","e","s","'"," ","i","s"," ","a","l","r","e","a","d","y"," ","d","e","f","i","n","e","d",".">>,
       line |-> 2, column |-> 5, nodeType |-> N_Identifier],
      [ruleId |-> null, severity |-> 2, message |-> M_parseToken,
       line |-> 3, column |-> 1, nodeType |-> null],
      [ruleId |-> null, severity |-> 2, message |-> <<"P","a","r","s","i","n","g"," ","e","r","r","o","r",":"," ","I","n","v","a","l","i","d"," ","n","u","m","b","e","r">>,
       line |-> 1, column |-> 9, nodeType |-> null] }

\* the object runEsLintAnalysis makes of one ESLint message
EsLintMessage(msg) ==
    LET explanationData == explanationDataOf(msg) IN
    [ruleId           |-> msg.ruleId,
     severity         |-> IF msg.severity = 2 THEN "error" ELSE "warning",
     message          |-> msg.message,
     line             |-> msg.line,
     column           |-> msg.column,
     nodeType         |-> msg.nodeType,
     suggestions      |-> IF "suggestions" \in DOMAIN msg
                          THEN msg.suggestions ELSE << >>,
     errorExplanation |-> explanationData.explanation,
     errorSuggestion  |-> explanationData.suggestion]

\* results.flatMap(result => result.messages.map(...))
RECURSIVE EsLintFormattedMessages(_)
EsLintFormattedMessages(results) ==
    IF Len(results) = 0 THEN << >>
    ELSE [k \in DOMAIN results[1].messages |->
              EsLintMessage(results[1].messages[k])]
         \o EsLintFormattedMessages(Tail(results))

\* fixedCode: the linter's output when results[0] has a string output
EsLintFixedCode(code, results) ==
    IF Len(results) > 0 /\ results[1].output # undefined
    THEN results[1].output ELSE code

----------------------------------------------------------------------------
(* runPylintAnalysis                                                        *)

J_empty == <<"[","]">>
J_one == <<"[","{","\"","t","y","p","e","\"",":","\"","c","o","n","v","e","n","t","i","o","n","\"",",","\"","m","o","d","u","l","e","\"",":","\"","m","\"",",","\"","s","y","m","b","o","l","\"",":","\"","C","0","1","1","4","\"",",","\"","m","e","s","s","a","g","e","\"",":","\"","n","o"," ","d","o","c","\"",",","\"","l","i","n","e","\"",":","1",",","\"","c","o","l","u","m","n","\"",":","0",",","\"","e","n","d","L","i","n","e","\"",":","n","u","l","l",",","\"","e","n","d","C","o","l","u","m","n","\"",":","n","u","l","l","}","]">>
J_two == <<"[","{","\"","t","y","p","e","\"",":","\"","e","r","r","o","r","\"",",","\"","m","o","d","u","l","e","\"",":","\"","m","\"",",","\"","s","y","m","b","o","l","\"",":","\"","E","0","6","0","2","\"",",","\"","m","e","s","s","a","g","e","\"",":","\"","u","n","d","e","f","\"",",","\"","l","i","n","e","\"",":","2",",","\"","c","o","l","u","m","n","\"",":","4",",","\"","e","n","d","L","i","n","e","\"",":","2",",","\"","e","n","d","C","o","l","u","m","n","\"",":","5","}",",","{","\"","t","y","p","e","\"",":","\"","c","o","n","v","e","n","t","i","o","n","\"",",","\"","m","o","d","u","l","e","\"",":","\"","m","\"",",","\"","s","y","m","b","o","l","\"",":","\"","C","0","1","1","4","\"",",","\"","m","e","s","s","a","g","e","\"",":","\"","n","o"," ","d","o","c","\"",",","\"","l","i","n","e","\"",":","1",",","\"","c","o","l","u","m","n","\"",":","0",",","\"","e","n","d","L","i","n","e","\"",":","n","u","l","l",",","\"","e","n","d","C","o","l","u","m","n","\"",":","n","u","l","l","}","]">>
J_object == <<"{","}">>
J_invalid == <<"[","{">>
E_python == <<"f","a","t","a","l",":"," ","c","o","n","f","i","g">>
E_pylintWin == <<"'","p","y","l","i","n","t","'"," ","i","s"," ","n","o","t"," ","r","e","c","o","g","n","i","z","e","d"," ","a","s"," ","a"," ","c","o","m","m","a","n","d">>
E_pylintSh == <<"s","h",":"," ","c","o","m","m","a","n","d"," ","n","o","t"," ","f","o","u","n","d",":"," ","p","y","l","i","n","t">>

\* JSON.parse on the documents the model's Pylint prints: the value, or a
\* SyntaxError for a text that is no JSON document
JSONparse(text) ==
    CASE text = J_empty -> [threw |-> FALSE, isArray |-> TRUE, items |-> << >>]
      [] text = J_one ->
           [threw |-> FALSE, isArray |-> TRUE, items |->
              << [type |-> "convention", module |-> "m", symbol |-> "C0114",
                  message |-> "no doc", line |-> 1, column |-> 0,
                  endLine |-> null, endColumn |-> null] >>]
      [] text = J_two ->
           [threw |-> FALSE, isArray |-> TRUE, items |->
              << [type |-> "error", module |-> "m", symbol |-> "E0602",
                  message |-> "undef", line |-> 2, column |-> 4,
                  endLine |-> 2, endColumn |-> 5],
                 [type |-> "convention", module |-> "m", symbol |-> "C0114",
                  message |-> "no doc", line |-> 1, column |-> 0,
                  endLine |-> null, endColumn |-> null] >>]
      [] text = J_object -> [threw |-> FALSE, isArray |-> FALSE]
      [] OTHER -> [threw |-> TRUE]

\* the object runPylintAnalysis makes of one Pylint message
PylintMessage(msg) ==
    [type      |-> msg.type,
     module    |-> msg.module,
     symbol    |-> msg.symbol,
     message   |-> msg.message,
     line      |-> msg.line,
     column    |-> msg.column,
     endLine   |-> msg.endLine,
     endColumn |-> msg.endColumn,
     errorExplanation |->
         <<"Pylint found a '", msg.type, "' type issue: ", msg.message, ".">>,
     errorSuggestion |->
         <<"Review the Python code at line ", ToString(msg.line), ", column ",
           ToString(msg.column), ". Consult Pylint documentation for rule '",
           msg.symbol, "'.">>]

PylintFormattedMessages(pylintResults) ==
    [k \in DOMAIN pylintResults |-> PylintMessage(pylintResults[k])]

\* a test that knows the Windows signature only (what C6 excludes)
PylintToolMissing_WindowsOnly(stderr) ==
    /\ stderr # <<>>
    /\ includes(stderr, S_pylintNotRecognized)

\* the "Pylint is not installed" test
PylintToolMissing(stderr) ==
    /\ stderr # <<>>
    /\ includes(stderr, S_pylintNotRecognized) \/ includes(stderr, S_pylintNotFound)

\* the "stderr without stdout" test
PylintStderrOnly(stdout, stderr) == stderr # <<>> /\ stdout = <<>>

----------------------------------------------------------------------------
(* getAIExplanation                                                         *)


nullExplanation ==
    [aiExplanation |-> null, aiSuggestion |-> null, aiFixedCode |-> null]

\* the prompt's template reads msg.severity.toUpperCase() of every message:
\* a TypeError, outside the try block, when a message has no severity
PromptThrows(errorMessages) ==
    \E k \in DOMAIN errorMessages : "severity" \notin DOMAIN errorMessages[k]

\* a getAIExplanation that builds the prompt before it looks at the model
\* (what C13 excludes)
getAIExplanationCall_PromptFirst(configured, errorMessages) ==
    IF PromptThrows(errorMessages) THEN "throws"
    ELSE IF ~configured THEN "disabled"
    ELSE "sendMessage"

\* a call of getAIExplanation up to its first await: "disabled" (model is
\* null, all-null returned), "throws" (the returned promise is rejected) or
\* "sendMessage" (chat.sendMessage is awaited)
getAIExplanationCall(configured, errorMessages) ==
    IF ~configured THEN "disabled"
    ELSE IF PromptThrows(errorMessages) THEN "throws"
    ELSE "sendMessage"

\* the backquote, which a string of this module cannot hold
BackQuote == "U+0060"
FenceOpen == <<BackQuote, BackQuote, BackQuote, "j", "s", "o", "n", "\n">>
FenceClose == <<"\n", BackQuote, BackQuote, BackQuote>>

\* the JSON object the prompt asks for
D_answer == <<"{","\"","e","x","p","l","a","n","a","t","i","o","n","\"",":","\"","w","h","y","\"",",","\"","s","u","g","g","e","s","t","i","o","n","\"",":","\"","h","o","w","\"",",","\"","f","i","x","e","d","C","o","d","e","\"",":","\"","x","=","1",";","\"","}">>

\* String.prototype.indexOf and lastIndexOf of one character, 0-based
indexOf(s, c) ==
    IF \E k \in 1..Len(s) : s[k] = c
    THEN (CHOOSE k \in 1..Len(s) : s[k] = c /\ \A j \in 1..(k - 1) : s[j] # c) - 1
    ELSE -1
lastIndexOf(s, c) ==
    IF \E k \in 1..Len(s) : s[k] = c
    THEN (CHOOSE k \in 1..Len(s) :
              s[k] = c /\ \A j \in (k + 1)..Len(s) : s[j] # c) - 1
    ELSE -1

\* String.prototype.substring: arguments are clamped to 0..length and
\* swapped when the first is the greater
substring(s, start, end) ==
    LET clamp(n) == IF n < 0 THEN 0 ELSE IF n > Len(s) THEN Len(s) ELSE n
        lo == IF clamp(start) <= clamp(end) THEN clamp(start) ELSE clamp(end)
        hi == IF clamp(start) <= clamp(end) THEN clamp(end) ELSE clamp(start)
    IN  SubSeq(s, lo + 1, hi)

\* text.match of the fenced-block pattern: the leftmost opening fence that
\* has a closing fence after it, and the shortest text between them
FenceStarts(text) ==
    {k \in 1..Len(text) :
        /\ OccursAt(text, FenceOpen, k)
        /\ \E e \in (k + Len(FenceOpen))..Len(text) : OccursAt(text, FenceClose, e)}
jsonMatch(text) ==
    IF FenceStarts(text) = {} THEN [matched |-> FALSE]
    ELSE LET k == CHOOSE x \in FenceStarts(text) :
                      \A y \in FenceStarts(text) : x <= y
             from == k + Len(FenceOpen)
             ends == {e \in from..Len(text) : OccursAt(text, FenceClose, e)}
             e == CHOOSE x \in ends : \A y \in ends : x <= y
         IN  [matched |-> TRUE, group |-> SubSeq(text, from, e - 1)]

\* the text handed to JSON.parse
jsonTextOf(text) ==
    IF jsonMatch(text).matched THEN jsonMatch(text).group
    ELSE substring(text, indexOf(text, "{"), lastIndexOf(text, "}") + 1)

\* JSON.parse of the texts getAIExplanation can hand to it
JSONparseObject(jsonText) ==
    CASE jsonText = D_answer ->
           [threw |-> FALSE,
            value |-> [explanation |-> <<"w","h","y">>, suggestion |-> <<"h","o","w">>,
                       fixedCode |-> <<"x","=","1",";">>]]
      [] OTHER -> [threw |-> TRUE]

\* what the Gemini call comes back with: a failure of startChat, sendMessage
\* or response.text(), or a text
AITexts ==
    { \* the object in a fenced block
      FenceOpen \o D_answer \o FenceClose,
      \* the object in prose
      <<"F","i","x",":"," ">> \o D_answer \o <<" ","D","o","n","e",".">>,
      \* no braces
      <<"s","o","r","r","y">>,
      \* braces in reverse order
      <<"}"," ","{">>,
      \* braces around no JSON
      <<"{","o","o","p","s","}">>,
      \* the object followed by a second pair of braces
      D_answer \o <<" ","o","r"," ","{","}">>,
      \* a fenced block after braces
      <<"{","x","}"," ">> \o FenceOpen \o D_answer \o FenceClose }
AIReplies ==
    {[rejected |-> TRUE]} \cup {[rejected |-> FALSE, text |-> t] : t \in AITexts}

\* the fallback for a text without JSON
rawTextExplanation(text) ==
    [aiExplanation |-> text,
     aiSuggestion  |-> <<"Could not parse AI response into JSON. Check original AI response.">>,
     aiFixedCode   |-> null]

\* how getAIExplanation ends once the call has come back: "reject" (the
\* catch block after a failed call), "text" (the raw-text fallback),
\* "badjson" (the catch block after JSON.parse threw) or "json"
getAIExplanationOutcome(reply) ==
    IF reply.rejected THEN "reject"
    ELSE LET jsonText == jsonTextOf(reply.text) IN
         IF jsonText = <<>> \/ trim(jsonText) = <<>> THEN "text"
         ELSE IF JSONparseObject(jsonText).threw THEN "badjson"
         ELSE "json"

\* the value getAIExplanation returns once the call has come back
getAIExplanationResult(reply) ==
    LET outcome == getAIExplanationOutcome(reply) IN
    IF outcome = "json"
    THEN LET parsedResponse == JSONparseObject(jsonTextOf(reply.text)).value IN
         [aiExplanation |-> parsedResponse.explanation,
          aiSuggestion  |-> parsedResponse.suggestion,
          aiFixedCode   |-> parsedResponse.fixedCode]
    ELSE IF outcome = "text" THEN rawTextExplanation(reply.text)
    ELSE nullExplanation

\* every reply with the way getAIExplanation ends on it and the value it
\* returns
AIAnswers ==
    {[outcome |-> getAIExplanationOutcome(reply),
      value |-> getAIExplanationResult(reply),
      reply |-> reply] : reply \in AIReplies}

----------------------------------------------------------------------------
(* Results and promises                                                     *)

Success(formattedMessages, fixedCode, ai) ==
    [success       |-> TRUE,
     analysis      |-> << [filePath |-> S_text, messages |-> formattedMessages] >>,
     fixedCode     |-> fixedCode,
     aiFixedCode   |-> ai.aiFixedCode,
     aiExplanation |-> ai.aiExplanation,
     aiSuggestion  |-> ai.aiSuggestion]

Failure(error) == [success |-> FALSE, error |-> error]
FailureWith(error, details) ==
    [success |-> FALSE, error |-> error, details |-> details]

Pending == [state |-> "pending"]
Resolved(value) == [state |-> "resolved", value |-> value]
Rejected(reason) == [state |-> "rejected", reason |-> reason]
Settled(p) == p.state \in {"resolved", "rejected"}
\* resolve and reject change a pending promise only
Settle(p, outcome) == IF p.state = "pending" THEN outcome ELSE p

----------------------------------------------------------------------------
(* runCodeAnalysis: the switch on language.toLowerCase()                    *)

\* a switch whose default case falls into the ESLint strategy (what C1
\* excludes)
StrategyOf_DefaultIsEsLint(language) ==
    LET tag == toLowerCase(language) IN
    IF tag = S_python THEN "runPylintAnalysis"
    ELSE IF tag = S_cplusplus \/ tag = S_cpp THEN "runCppAnalysis"
    ELSE "runEsLintAnalysis"

\* a switch on the tag as given, without toLowerCase (what C2 excludes)
StrategyOf_CaseSensitive(language) ==
    IF language = S_javascript THEN "runEsLintAnalysis"
    ELSE IF language = S_python THEN "runPylintAnalysis"
    ELSE IF language = S_cplusplus \/ language = S_cpp THEN "runCppAnalysis"
    ELSE "default"

StrategyOf(language) ==
    LET tag == toLowerCase(language) IN
    IF tag = S_javascript THEN "runEsLintAnalysis"
    ELSE IF tag = S_python THEN "runPylintAnalysis"
    ELSE IF tag = S_cplusplus \/ tag = S_cpp THEN "runCppAnalysis"
    ELSE "default"

Unsupported(language) ==
    Failure(<<"Unsupported language for debugging: ", language, ".">>)

----------------------------------------------------------------------------
(* Inputs of the model                                                      *)

LanguageTags ==
    { <<"j","a","v","a","s","c","r","i","p","t">>,
      <<"J","a","v","a","S","c","r","i","p","t">>,
      <<"p","y","t","h","o","n">>,
      <<"P","Y","T","H","O","N">>,
      <<"c","+","+">>,
      <<"C","p","p">>,
      <<"j","a","v","a">>,
      <<"c">>,
      <<>> }

Codes == { <<"x","=","1">>, <<"y">> }
FixedOutput == <<"x","=","1",";">>
ExecutableData == <<"E","L","F">>

\* what new ESLint(...) and eslint.lintText(code) come to
LintOutcomes ==
    {[threw |-> TRUE, message |-> <<"Could not find config file.">>]}
    \cup {[threw |-> FALSE, results |-> << >>]}
    \cup {[threw |-> FALSE, results |-> << [messages |-> ms, output |-> out] >>] :
            ms \in SeqsUpTo(LintMessages, MaxLintMessages),
            out \in {undefined, FixedOutput}}

PylintStdouts == {<<>>, J_empty, J_one, J_two, J_object, J_invalid}
PylintStderrs == {<<>>, E_python, E_pylintWin, E_pylintSh}
ExitCodes == {0, 1}

StderrLines ==
    { <<"a",":","1",":","2",":"," ","e","r","r","o","r",":"," ","x">>,
      <<"a",":","1","2",":","3",":"," ","w","a","r","n","i","n","g",":"," ","y">>,
      <<"a",":"," ","e","r","r","o","r",":"," ","x">>,
      <<" ","w","a","r","n","i","n","g",":"," ","z"," ">>,
      <<"n","o","t","e">>,
      <<"a",":","1",":","2",":"," ","e","r","r","o","r",":"," ","x","\r">>,
      <<"w","a","r","n","i","n","g",":"," ","e","r","r","o","r",":"," ","q">>,
      <<>> }
E_gppWin == <<"'","g","+","+","'"," ","i","s"," ","n","o","t"," ","r","e","c","o","g","n","i","z","e","d">>
E_gppSh == <<"s","h",":"," ","c","o","m","m","a","n","d"," ","n","o","t"," ","f","o","u","n","d",":"," ","g","+","+">>

\* every stderr of at most n lines
CppStderrsUpTo(n) ==
    {join(ls, "\n") : ls \in SeqsUpTo(StderrLines \cup {E_gppWin}, n)}

\* the stderr texts the whole-program specification draws from
CppStderrs == CppStderrsUpTo(1) \cup {E_gppSh}

----------------------------------------------------------------------------
(* Temporary files                                                          *)

PythonTempPath(t) == <<"temp_python_code_", ToString(t), ".py">>
CppTempPath(t) == <<"temp_cpp_code_", ToString(t), ".cpp">>
ExecutableTempPath(t) == <<"temp_cpp_executable_", ToString(t)>>

----------------------------------------------------------------------------
(* State                                                                    *)

VARIABLES
    inv,     \* the calls of runCodeAnalysis: locals, handlers and promises
    files,   \* the files of os.tmpdir(), as [path, data]
    now,     \* Date.now()
    model,   \* the Gemini model, null without GOOGLE_API_KEY
    calls,   \* how many calls of runCodeAnalysis were made
    unlinkRefused,  \* history: the system refused to unlink an existing file
    http     \* the requests debugCode serves: request, locals and response

vars == <<inv, files, now, model, calls, unlinkRefused, http>>

\* the calls of runCodeAnalysis the model follows
Procs == {1}

NoResult == [none |-> TRUE]

\* no request is being served
NoRequest == [pc |-> "idle"]

\* a call that was not made yet
Idle ==
    [pc |-> "idle", language |-> <<>>, code |-> <<>>, called |-> << >>,
     tempFilePath |-> undefined, tempExecutablePath |-> undefined,
     child |-> "none", closePc |-> "none", errorPc |-> "none",
     exitCode |-> 0, stdout |-> <<>>, stderr |-> <<>>,
     formattedMessages |-> << >>, fixedCode |-> <<>>,
     promise |-> [state |-> "none"], returned |-> [state |-> "none"],
     closeResult |-> NoResult, ai |-> "none",
     lintRuns |-> 0, writes |-> 0, spawns |-> 0, aiCalls |-> 0, sends |-> 0,
     parses |-> 0, unlinked |-> {}, refused |-> FALSE,
     caught |-> undefined]

Strategy(r) == IF Len(r.called) = 0 THEN "default" ELSE r.called[1]

existsSync(fs, p) == \E f \in fs : f.path = p
writeFile(fs, p, data) == {f \in fs : f.path # p} \cup {[path |-> p, data |-> data]}
\* fs.unlink: removes the file, unless the file is missing or the system
\* refuses (ok = FALSE); the callers swallow the failure
unlink(fs, p, ok) == IF ok THEN {f \in fs : f.path # p} ELSE fs
UnlinkResults(fs, p) == IF existsSync(fs, p) THEN {TRUE, FALSE} ELSE {FALSE}
\* the record of an awaited unlink
AfterUnlink(r, fs, p, ok) ==
    [r EXCEPT !.unlinked = @ \cup {p},
              !.refused  = @ \/ (existsSync(fs, p) /\ ~ok)]

----------------------------------------------------------------------------
(* How each strategy goes on once its diagnostics are known                 *)

\* runEsLintAnalysis returns its result
EsLintReturn(r, ai) ==
    [r EXCEPT !.pc = "returned",
              !.promise = Resolved(Success(r.formattedMessages, r.fixedCode, ai))]

\* a catch block that drops the caught error's message (what C16 excludes)
EsLintCatch_WithoutDetails(r, message) ==
    [r EXCEPT !.pc = "returned",
              !.promise = Resolved(Failure(
                  <<"Failed to run ESLint. Check server logs for details.">>))]

\* the catch block of runEsLintAnalysis
EsLintCatch(r, message) ==
    [r EXCEPT !.pc = "returned",
              !.promise = Resolved(FailureWith(
                  <<"Failed to run ESLint. Check server logs for details.">>,
                  message))]

\* the 'close' handler of runPylintAnalysis resolves with its result
PylintResolve(r, ai) ==
    LET value == Success(r.formattedMessages, r.code, ai) IN
    [r EXCEPT !.closePc = "done", !.closeResult = value,
              !.promise = Settle(@, Resolved(value))]

\* a catch block that rejects the promise (what C15 excludes)
PylintCatch_Rejects(r, message) ==
    LET value == FailureWith(<<"Failed to parse Pylint output.">>,
                     IF r.stdout # <<>> THEN r.stdout
                     ELSE IF r.stderr # <<>> THEN r.stderr ELSE message) IN
    [r EXCEPT !.closePc = "done", !.closeResult = value,
              !.promise = Settle(@, Rejected(value))]

\* the catch block around JSON.parse, the mapping and getAIExplanation
PylintCatch(r, message) ==
    LET value == FailureWith(<<"Failed to parse Pylint output.">>,
                     IF r.stdout # <<>> THEN r.stdout
                     ELSE IF r.stderr # <<>> THEN r.stderr ELSE message) IN
    [r EXCEPT !.closePc = "done", !.closeResult = value,
              !.promise = Settle(@, Resolved(value))]

\* a 'close' handler that builds its result and never calls resolve (what
\* C24 excludes)
CppResolve_NeverResolves(r, ai) ==
    LET value == Success(r.formattedMessages, r.code, ai) IN
    [r EXCEPT !.closePc = "done", !.closeResult = value]

\* the 'close' handler of runCppAnalysis resolves with its result
CppResolve(r, ai) ==
    LET value == Success(r.formattedMessages, r.code, ai) IN
    [r EXCEPT !.closePc = "done", !.closeResult = value,
              !.promise = Settle(@, Resolved(value))]

\* a rejection of getAIExplanation inside the 'close' handler of
\* runCppAnalysis is caught by nothing: the handler ends, resolve is not called
CppUnhandled(r) == [r EXCEPT !.closePc = "crashed"]

\* a getAIExplanation that sends the prompt a second time after a failed
\* Gemini call (what C23 excludes)
Finish_RetriesOnce(r, ai) ==
    IF r.ai = "reject" /\ r.sends = 1 THEN [r EXCEPT !.sends = 2]
    ELSE CASE Strategy(r) = "runEsLintAnalysis" -> EsLintReturn(r, ai)
           [] Strategy(r) = "runPylintAnalysis" -> PylintResolve(r, ai)
           [] Strategy(r) = "runCppAnalysis" -> CppResolve(r, ai)

\* the strategy goes on with the value getAIExplanation returned
Finish(r, ai) ==
    CASE Strategy(r) = "runEsLintAnalysis" -> EsLintReturn(r, ai)
      [] Strategy(r) = "runPylintAnalysis" -> PylintResolve(r, ai)
      [] Strategy(r) = "runCppAnalysis" -> CppResolve(r, ai)

TypeErrorMessage == <<"Cannot read properties of undefined (reading 'toUpperCase')">>

\* await getAIExplanation(code, language, formattedMessages)
AwaitAI(r, configured) ==
    LET c  == getAIExplanationCall(configured, r.formattedMessages)
        r1 == [r EXCEPT !.aiCalls = @ + 1, !.ai = c]
    IN  CASE c = "disabled" -> Finish(r1, nullExplanation)
          [] c = "throws" ->
               IF Strategy(r) = "runEsLintAnalysis"
               THEN EsLintCatch(r1, TypeErrorMessage)
               ELSE IF Strategy(r) = "runPylintAnalysis"
               THEN PylintCatch(r1, TypeErrorMessage)
               ELSE CppUnhandled(r1)
          [] c = "sendMessage" ->
               IF Strategy(r) = "runEsLintAnalysis"
               THEN [r1 EXCEPT !.sends = @ + 1, !.pc = "getAI"]
               ELSE [r1 EXCEPT !.sends = @ + 1, !.closePc = "getAI"]

\* a runEsLintAnalysis that asks for the explanation whatever the linter
\* found (what C12 excludes)
EsLintAfterLint_AlwaysCallsAI(r, outcome, configured) ==
    IF outcome.threw THEN EsLintCatch(r, outcome.message)
    ELSE AwaitAI([r EXCEPT
                    !.formattedMessages = EsLintFormattedMessages(outcome.results),
                    !.fixedCode = EsLintFixedCode(r.code, outcome.results)],
                 configured)

\* runEsLintAnalysis after new ESLint(...) and await eslint.lintText(code)
EsLintAfterLint(r, outcome, configured) ==
    IF outcome.threw THEN EsLintCatch(r, outcome.message)
    ELSE LET r1 == [r EXCEPT
                      !.formattedMessages = EsLintFormattedMessages(outcome.results),
                      !.fixedCode = EsLintFixedCode(r.code, outcome.results)]
         IN IF Len(r1.formattedMessages) > 0
            THEN AwaitAI(r1, configured)
            ELSE EsLintReturn(r1, nullExplanation)

\* the 'close' handler of runPylintAnalysis after its awaited unlink
PylintOnClose(r, configured) ==
    IF PylintToolMissing(r.stderr) THEN
        LET value == Failure(<<"Pylint is not installed or not in your system's PATH. Please install it (e.g., 'pip install pylint').">>) IN
        [r EXCEPT !.closePc = "done", !.closeResult = value,
                  !.promise = Settle(@, Resolved(value))]
    ELSE IF PylintStderrOnly(r.stdout, r.stderr) THEN
        LET value == Failure(<<"Pylint encountered an error: ", trim(r.stderr)>>) IN
        [r EXCEPT !.closePc = "done", !.closeResult = value,
                  !.promise = Settle(@, Resolved(value))]
    ELSE
        LET pylintResults == JSONparse(IF r.stdout # <<>> THEN r.stdout ELSE J_empty)
            r1 == [r EXCEPT !.parses = @ + 1]
        IN  IF pylintResults.threw
            THEN PylintCatch(r1, <<"Unexpected end of JSON input">>)
            ELSE IF ~pylintResults.isArray
            THEN PylintCatch(r1, <<"pylintResults.map is not a function">>)
            ELSE LET r2 == [r1 EXCEPT !.formattedMessages =
                                  PylintFormattedMessages(pylintResults.items)]
                 IN IF Len(r2.formattedMessages) > 0
                    THEN AwaitAI(r2, configured)
                    ELSE PylintResolve(r2, nullExplanation)

\* the 'close' handler of runCppAnalysis after its awaited unlinks
CppOnClose(r, configured) ==
    LET r1 == [r EXCEPT !.formattedMessages = CppFormattedMessages(r.stderr)] IN
    IF CppToolMissing(r.stderr) THEN
        LET value == Failure(<<"g++ compiler is not installed or not in your system's PATH. Please install it.">>) IN
        [r1 EXCEPT !.closePc = "done", !.closeResult = value,
                   !.promise = Settle(@, Resolved(value))]
    ELSE IF CppCallsAI(r1.formattedMessages, r1.exitCode)
         THEN AwaitAI(r1, configured)
         ELSE CppResolve(r1, nullExplanation)

\* a guard that forgets the existsSync test (what C3 excludes)
CppUnlinksExecutable_OnSuccessOnly(fs, r) ==
    r.exitCode = 0

\* the test that guards the unlink of the compiled output on 'close'
CppUnlinksExecutable(fs, r) ==
    r.exitCode = 0 \/ existsSync(fs, r.tempExecutablePath)

----------------------------------------------------------------------------
(* Actions                                                                  *)

Init ==
    /\ inv \in [Procs -> {Idle}]
    /\ files = {}
    /\ now = 0
    /\ model \in {null, <<"gemini-2.5-flash">>}
    /\ calls = 0
    /\ unlinkRefused = FALSE
    /\ http \in [Procs -> {NoRequest}]

\* runCodeAnalysis returns the promise of the strategy it called: its own
\* promise settles as that one does
Follow(r) ==
    [r EXCEPT !.returned = IF Settled(r.promise) THEN r.promise ELSE @]

\* Date.now(): time has passed since the last reading
DateNow == now..MaxClock

\* runCodeAnalysis(code, language), up to the first await of the strategy
runCodeAnalysisWith(i, code, language) ==
    /\ inv[i].pc = "idle"
    /\ calls < MaxCalls
    /\ calls' = calls + 1
    /\  LET s == StrategyOf(language)
             r == [Idle EXCEPT !.language = language, !.code = code,
                               !.returned = Pending]
         IN  \/ /\ s = "runEsLintAnalysis"
                /\ inv' = [inv EXCEPT ![i] =
                             [r EXCEPT !.called = <<s>>, !.promise = Pending,
                                       !.lintRuns = 1, !.pc = "lintText"]]
                /\ now' = now
             \/ /\ s = "runPylintAnalysis"
                /\ \E t \in DateNow :
                     /\ inv' = [inv EXCEPT ![i] =
                                  [r EXCEPT !.called = <<s>>, !.promise = Pending,
                                            !.tempFilePath = PythonTempPath(t),
                                            !.writes = 1, !.pc = "writeFile"]]
                     /\ now' = t
             \/ /\ s = "runCppAnalysis"
                /\ \E t1 \in DateNow : \E t2 \in t1..MaxClock :
                     /\ inv' = [inv EXCEPT ![i] =
                                  [r EXCEPT !.called = <<s>>, !.promise = Pending,
                                            !.tempFilePath = CppTempPath(t1),
                                            !.tempExecutablePath = ExecutableTempPath(t2),
                                            !.writes = 1, !.pc = "writeFile"]]
                     /\ now' = t2
             \/ /\ s = "default"
                /\ inv' = [inv EXCEPT ![i] =
                             [r EXCEPT !.returned = Resolved(Unsupported(language)),
                                       !.pc = "returned"]]
                /\ now' = now
    /\ UNCHANGED <<files, model, unlinkRefused>>

\* a call of the exported runCodeAnalysis by any caller
runCodeAnalysis(i) ==
    /\ \E code \in Codes, language \in LanguageTags :
         runCodeAnalysisWith(i, code, language)
    /\ UNCHANGED http

\* new ESLint(...) and eslint.lintText(code) come back
lintTextSettles(i) ==
    /\ inv[i].pc = "lintText"
    /\ \E outcome \in LintOutcomes :
         inv' = [inv EXCEPT ![i] =
                   Follow(EsLintAfterLint(inv[i], outcome, model # null))]
    /\ UNCHANGED <<files, now, model, calls, unlinkRefused, http>>

\* chat.sendMessage and the reading of its response come back
sendMessageSettles(i) ==
    /\ inv[i].pc = "getAI" \/ inv[i].closePc = "getAI"
    /\ \E answer \in AIAnswers :
         inv' = [inv EXCEPT ![i] =
                   Follow(Finish([inv[i] EXCEPT !.ai = answer.outcome],
                                 answer.value))]
    /\ UNCHANGED <<files, now, model, calls, unlinkRefused, http>>

\* the messages of the errors fs.writeFile rejects with and spawn throws
E_writeFile == <<"ENOSPC: no space left on device, write">>
E_spawnThrown == <<"spawn ENOMEM">>

\* a catch block that reports no details (what C20 excludes)
PrepareFailure_WithoutDetails(r) ==
    Failure(IF Strategy(r) = "runCppAnalysis"
            THEN <<"Failed to prepare C++ code for analysis.">>
            ELSE <<"Failed to prepare Python code for analysis.">>)

\* the value the catch block of a subprocess strategy returns
PrepareFailure(r) ==
    FailureWith(IF Strategy(r) = "runCppAnalysis"
                THEN <<"Failed to prepare C++ code for analysis.">>
                ELSE <<"Failed to prepare Python code for analysis.">>,
                r.caught)

\* fs.writeFile(tempFilePath, code) comes back, and spawn is called
writeFileSettles(i) ==
    LET r == inv[i] IN
    /\ r.pc = "writeFile"
    /\ \E outcome \in {"written", "failed", "partial", "spawnThrows"} :
         /\ files' = CASE outcome \in {"written", "spawnThrows"} ->
                            writeFile(files, r.tempFilePath, r.code)
                       [] outcome = "partial" ->
                            writeFile(files, r.tempFilePath, <<>>)
                       [] outcome = "failed" -> files
         /\ inv' = [inv EXCEPT ![i] =
                CASE outcome = "written" ->
                       [r EXCEPT !.spawns = @ + 1, !.child = "running",
                                 !.pc = "spawned"]
                  [] outcome = "spawnThrows" ->
                       [r EXCEPT !.spawns = @ + 1, !.pc = "catchUnlink",
                                 !.caught = E_spawnThrown]
                  [] OTHER -> [r EXCEPT !.pc = "catchUnlink",
                                        !.caught = E_writeFile]]
    /\ UNCHANGED <<now, model, calls, unlinkRefused, http>>

\* the path the catch block of a subprocess strategy is unlinking
CatchUnlinkPath(r) ==
    IF r.pc = "catchUnlink" THEN r.tempFilePath ELSE r.tempExecutablePath

\* the catch block goes on after an awaited unlink, whose failure it swallows
CatchAfterUnlink(r, fs, ok) ==
    LET r1 == AfterUnlink(r, fs, CatchUnlinkPath(r), ok) IN
    IF Strategy(r) = "runCppAnalysis" /\ r.pc = "catchUnlink"
    THEN [r1 EXCEPT !.pc = "catchUnlinkExe"]
    ELSE [r1 EXCEPT !.pc = "returned",
                    !.promise = Resolved(PrepareFailure(r))]

\* the unlinks awaited in the catch block of a subprocess strategy
catchUnlinkSettles(i) ==
    LET r == inv[i]
        p == CatchUnlinkPath(r)
    IN
    /\ r.pc \in {"catchUnlink", "catchUnlinkExe"}
    /\ \E ok \in UnlinkResults(files, p) :
         /\ files' = unlink(files, p, ok)
         /\ unlinkRefused' = (unlinkRefused \/ (existsSync(files, p) /\ ~ok))
         /\ inv' = [inv EXCEPT ![i] = Follow(CatchAfterUnlink(r, files, ok))]
    /\ UNCHANGED <<now, model, calls, http>>

\* the child emits 'error' (it could not be spawned): the handler starts
childError(i) ==
    /\ inv[i].child = "running"
    /\ inv' = [inv EXCEPT ![i] = [@ EXCEPT !.child = "errored",
                                           !.errorPc = "unlinkSrc"]]
    /\ UNCHANGED <<files, now, model, calls, unlinkRefused, http>>

\* the child emits 'close' with the output accumulated meanwhile (after
\* 'error': nothing ran, the exit code is -ENOENT): the handler starts
childCloseFrom(i, stdouts, stderrs) ==
    LET r == inv[i] IN
    /\ r.child \in {"running", "errored"}
    /\ \/ /\ r.child = "errored"
          /\ inv' = [inv EXCEPT ![i] = [r EXCEPT !.child = "closed",
                        !.exitCode = -2, !.closePc = "unlinkSrc"]]
          /\ files' = files
       \/ /\ r.child = "running"
          /\ \E exitCode \in ExitCodes, stdout \in stdouts, stderr \in stderrs,
                compiled \in BOOLEAN :
               /\ Strategy(r) = "runPylintAnalysis" => ~compiled
               /\ Strategy(r) = "runCppAnalysis" => (exitCode = 0 => compiled)
               /\ inv' = [inv EXCEPT ![i] = [r EXCEPT !.child = "closed",
                             !.exitCode = exitCode, !.stdout = stdout,
                             !.stderr = stderr, !.closePc = "unlinkSrc"]]
               /\ files' = IF compiled
                           THEN writeFile(files, r.tempExecutablePath, ExecutableData)
                           ELSE files
    /\ UNCHANGED <<now, model, calls, unlinkRefused, http>>

childClose(i) ==
    IF Strategy(inv[i]) = "runPylintAnalysis"
    THEN childCloseFrom(i, PylintStdouts, PylintStderrs)
    ELSE childCloseFrom(i, {<<>>}, CppStderrs)

\* the path the 'close' / 'error' handler is unlinking
CloseUnlinkPath(r) ==
    IF r.closePc = "unlinkSrc" THEN r.tempFilePath ELSE r.tempExecutablePath
ErrorUnlinkPath(r) ==
    IF r.errorPc = "unlinkSrc" THEN r.tempFilePath ELSE r.tempExecutablePath

\* a 'close' handler that reports a failed unlink as the result (what C21
\* excludes)
CloseAfterUnlink_Propagates(r, fs, ok, configured) ==
    LET p == CloseUnlinkPath(r)
        r1 == AfterUnlink(r, fs, p, ok)
        value == FailureWith(<<"Failed to delete temporary file.">>,
                             <<"EPERM: operation not permitted, unlink">>)
    IN  IF ~ok
        THEN [r1 EXCEPT !.closePc = "done", !.closeResult = value,
                        !.promise = Settle(@, Resolved(value))]
        ELSE IF Strategy(r) = "runPylintAnalysis"
        THEN PylintOnClose(r1, configured)
        ELSE IF r.closePc = "unlinkSrc" /\ CppUnlinksExecutable(unlink(fs, p, ok), r)
        THEN [r1 EXCEPT !.closePc = "unlinkExe"]
        ELSE CppOnClose(r1, configured)

\* the 'close' handler goes on after an awaited unlink, whose failure it
\* swallows
CloseAfterUnlink(r, fs, ok, configured) ==
    LET p == CloseUnlinkPath(r)
        r1 == AfterUnlink(r, fs, p, ok)
    IN  IF Strategy(r) = "runPylintAnalysis"
        THEN PylintOnClose(r1, configured)
        ELSE IF r.closePc = "unlinkSrc" /\ CppUnlinksExecutable(unlink(fs, p, ok), r)
        THEN [r1 EXCEPT !.closePc = "unlinkExe"]
        ELSE CppOnClose(r1, configured)

\* the 'error' handler goes on after an awaited unlink, whose failure it
\* swallows, and rejects after the last
ErrorAfterUnlink(r, fs, ok) ==
    LET r1 == AfterUnlink(r, fs, ErrorUnlinkPath(r), ok) IN
    IF Strategy(r) = "runCppAnalysis" /\ r.errorPc = "unlinkSrc"
    THEN [r1 EXCEPT !.errorPc = "unlinkExe"]
    ELSE [r1 EXCEPT !.errorPc = "done",
            !.promise = Settle(@, Rejected(
               IF Strategy(r) = "runCppAnalysis"
               THEN <<"Failed to run g++: ", "spawn ENOENT",
                      ". Is g++ installed and in your PATH?">>
               ELSE <<"Failed to run Pylint: ", "spawn ENOENT",
                      ". Is Pylint installed and in your PATH?">>))]

\* an unlink awaited by the 'close' handler comes back
closeUnlinkSettles(i) ==
    LET r == inv[i]
        p == CloseUnlinkPath(r)
    IN
    /\ r.closePc \in {"unlinkSrc", "unlinkExe"}
    /\ \E ok \in UnlinkResults(files, p) :
         /\ files' = unlink(files, p, ok)
         /\ unlinkRefused' = (unlinkRefused \/ (existsSync(files, p) /\ ~ok))
         /\ inv' = [inv EXCEPT ![i] =
                      Follow(CloseAfterUnlink(r, files, ok, model # null))]
    /\ UNCHANGED <<now, model, calls, http>>

\* an unlink awaited by the 'error' handler comes back
errorUnlinkSettles(i) ==
    LET r == inv[i]
        p == ErrorUnlinkPath(r)
    IN
    /\ r.errorPc \in {"unlinkSrc", "unlinkExe"}
    /\ \E ok \in UnlinkResults(files, p) :
         /\ files' = unlink(files, p, ok)
         /\ unlinkRefused' = (unlinkRefused \/ (existsSync(files, p) /\ ~ok))
         /\ inv' = [inv EXCEPT ![i] = Follow(ErrorAfterUnlink(r, files, ok))]
    /\ UNCHANGED <<now, model, calls, http>>

\* nothing of the call is in flight any more
Quiescent(r) ==
    /\ Settled(r.returned)
    /\ r.child # "running"
    /\ r.closePc \in {"none", "done"}
    /\ r.errorPc \in {"none", "done"}

\* the call is over; the next one can be made
callEnds(i) ==
    /\ Quiescent(inv[i])
    /\ calls < MaxCalls
    /\ inv' = [inv EXCEPT ![i] = Idle]
    /\ UNCHANGED <<files, now, model, calls, unlinkRefused, http>>

Next ==
    \/ \E i \in Procs : runCodeAnalysis(i)
    \/ \E i \in Procs : lintTextSettles(i)
    \/ \E i \in Procs : sendMessageSettles(i)
    \/ \E i \in Procs : writeFileSettles(i)
    \/ \E i \in Procs : catchUnlinkSettles(i)
    \/ \E i \in Procs : childError(i)
    \/ \E i \in Procs : childClose(i)
    \/ \E i \in Procs : closeUnlinkSettles(i)
    \/ \E i \in Procs : errorUnlinkSettles(i)
    \/ \E i \in Procs : callEnds(i)

Spec == Init /\ [][Next]_vars

----------------------------------------------------------------------------
(* runCppAnalysis alone, from the moment g++ was spawned, with every stderr  *)
(* of at most MaxStderrLines lines                                           *)

InitCpp ==
    /\ \E code \in Codes, language \in {S_cplusplus, <<"C","p","p">>} :
       \E t1 \in 0..MaxClock : \E t2 \in t1..MaxClock :
         /\ inv \in [Procs -> {
                     [Idle EXCEPT !.language = language, !.code = code,
                                  !.returned = Pending, !.promise = Pending,
                                  !.called = <<StrategyOf(language)>>,
                                  !.tempFilePath = CppTempPath(t1),
                                  !.tempExecutablePath = ExecutableTempPath(t2),
                                  !.writes = 1, !.spawns = 1,
                                  !.child = "running", !.pc = "spawned"] }]
         /\ files = {[path |-> CppTempPath(t1), data |-> code]}
         /\ now = t2
    /\ model \in {null, <<"gemini-2.5-flash">>}
    /\ calls = 1
    /\ unlinkRefused = FALSE
    /\ http \in [Procs -> {NoRequest}]

\* the stderr texts g++ can have written when it closes
CppStderrsWide == CppStderrsUpTo(MaxStderrLines)

cppClose(i) == childCloseFrom(i, {<<>>}, CppStderrsWide)

NextCpp ==
    \/ \E i \in Procs : childError(i)
    \/ \E i \in Procs : cppClose(i)
    \/ \E i \in Procs : closeUnlinkSettles(i)
    \/ \E i \in Procs : errorUnlinkSettles(i)
    \/ \E i \in Procs : sendMessageSettles(i)

SpecCpp == InitCpp /\ [][NextCpp]_vars

----------------------------------------------------------------------------
(* debugCode: the request handler of POST /                                 *)

\* JavaScript values of the request's fields
JsString(s) == [type |-> "string", value |-> s]
JsNumber(n) == [type |-> "number", value |-> n]
JsUndefined == [type |-> "undefined"]

\* Buffer.prototype.toString('utf8') of one byte: ASCII bytes are their
\* characters, a byte that starts no valid sequence is U+FFFD
Utf8Char(b) ==
    CASE b = 10 -> "\n"
      [] b = 32 -> " "
      [] b = 49 -> "1"
      [] b = 61 -> "="
      [] b = 120 -> "x"
      [] b = 121 -> "y"
      [] OTHER -> "U+FFFD"
bufferToString(data) == [k \in 1..Len(data) |-> Utf8Char(data[k])]

\* name.split('.').pop(): the text after the last '.', the whole name
\* when it has none
RECURSIVE splitPop(_)
splitPop(name) ==
    IF Len(name) = 0 THEN <<>>
    ELSE IF name[Len(name)] = "." THEN <<>>
    ELSE Append(splitPop(SubSeq(name, 1, Len(name) - 1)), name[Len(name)])

\* the chain of tests on the file extension; an unknown extension keeps
\* the default the local started with
LanguageOfExtension(fileExtension) ==
    IF fileExtension = <<"j","s">> THEN S_javascript
    ELSE IF fileExtension = <<"p","y">> THEN S_python
    ELSE IF fileExtension \in {<<"c","p","p">>, <<"c","x","x">>, <<"c","c">>}
    THEN S_cplusplus
    ELSE S_javascript

\* a chain that takes the body's language for an unknown extension
LanguageOfFile_BodyForUnknown(req) ==
    LET fileExtension == toLowerCase(splitPop(req.files.codeFile.name)) IN
    IF fileExtension \in {<<"j","s">>, <<"p","y">>, <<"c","p","p">>,
                          <<"c","x","x">>, <<"c","c">>}
    THEN LanguageOfExtension(fileExtension)
    ELSE IF req.body.language.type = "string" /\ req.body.language.value # <<>>
    THEN req.body.language.value
    ELSE S_javascript

\* the language of an uploaded file
LanguageOfFile(req) ==
    LanguageOfExtension(toLowerCase(splitPop(req.files.codeFile.name)))

\* the language of pasted code
LanguageOfBody(body) ==
    IF body.language.type = "string" /\ body.language.value # <<>>
    THEN body.language.value
    ELSE S_javascript

\* the locals code and language after the three branches on the request, or
\* the 400 response of the third; codeFile.data is undefined when codeFile is
\* an array, and .toString of undefined throws a TypeError
debugCodeInput(req) ==
    IF "codeFile" \in DOMAIN req.files /\ "data" \notin DOMAIN req.files.codeFile
    THEN [status |-> -1,
          thrown |-> <<"Cannot read properties of undefined (reading 'toString')">>]
    ELSE IF "codeFile" \in DOMAIN req.files
    THEN [status |-> 0, code |-> bufferToString(req.files.codeFile.data),
          language |-> LanguageOfFile(req)]
    ELSE IF req.body.code.type = "string"
    THEN [status |-> 0, code |-> req.body.code.value,
          language |-> LanguageOfBody(req.body)]
    ELSE [status |-> 400,
          body |-> [error |-> <<"No code provided for debugging or invalid input format.">>]]

\* the requests of the model: uploads with and without a body, an upload of
\* two files under the one field name, pasted code with every kind of
\* language field, and requests without code
FileNames ==
    { <<"a",".","j","s">>, <<"b",".","P","Y">>, <<"m",".","c","c">>,
      <<"n",".","C","x","x">>, <<"o",".","c","p","p">>,
      <<"t",".","j","a","v","a">>, <<"R","E","A","D","M","E">>,
      <<"x",".","j","s",".","p","y">>, <<"z",".">> }
FileData == { <<120, 61, 49>>, <<32, 10>>, <<255>> }
BodyLanguages ==
    { JsUndefined, JsString(<<>>), JsString(S_python), JsString(<<"C","p","p">>),
      JsString(<<"j","a","v","a">>), JsString(<<"J","a","v","a","S","c","r","i","p","t">>),
      JsNumber(5) }
NoFiles == [none |-> TRUE]
\* req.files.codeFile of a form with two parts named codeFile: an array of
\* the two files, which has neither a data nor a name property
CodeFileArray == [length |-> 2]
EmptyBody == [code |-> JsUndefined, language |-> JsUndefined]
Requests ==
    {[files |-> [codeFile |-> [name |-> n, data |-> <<120, 61, 49>>]],
      body |-> b] :
        n \in FileNames,
        b \in {EmptyBody, [code |-> JsString(<<"y">>), language |-> JsString(S_python)]}}
    \cup {[files |-> [codeFile |-> [name |-> <<"a",".","j","s">>, data |-> d]],
           body |-> EmptyBody] : d \in FileData \cup {<<>>}}
    \cup {[files |-> [codeFile |-> CodeFileArray], body |-> EmptyBody]}
    \cup {[files |-> NoFiles, body |-> [code |-> JsString(<<"y">>), language |-> l]] :
            l \in BodyLanguages}
    \cup {[files |-> NoFiles, body |-> [code |-> c, language |-> JsString(S_python)]] :
            c \in {JsUndefined, JsNumber(5), JsString(<<>>), JsString(<<" ","\n">>)}}

\* debugCode(req, res) up to its first await: the 400 responses, or the call
\* of runCodeAnalysis; an exception before the try block ends the handler
\* without a response
debugCode(i) ==
    /\ http[i].pc = "idle"
    /\ \E req \in Requests :
         LET d == debugCodeInput(req) IN
         IF d.status = -1
         THEN /\ http' = [http EXCEPT ![i] =
                    [pc |-> "threw", req |-> req, thrown |-> d.thrown]]
              /\ UNCHANGED <<inv, files, now, model, calls, unlinkRefused>>
         ELSE IF d.status = 400
         THEN /\ http' = [http EXCEPT ![i] =
                    [pc |-> "responded", req |-> req,
                     res |-> [status |-> 400, body |-> d.body]]]
              /\ UNCHANGED <<inv, files, now, model, calls, unlinkRefused>>
         ELSE IF trim(d.code) = <<>>
         THEN /\ http' = [http EXCEPT ![i] =
                    [pc |-> "responded", req |-> req,
                     code |-> d.code, language |-> d.language,
                     res |-> [status |-> 400,
                              body |-> [error |-> <<"Provided code is empty or contains only whitespace. Please provide valid code.">>]]]]
              /\ UNCHANGED <<inv, files, now, model, calls, unlinkRefused>>
         ELSE /\ runCodeAnalysisWith(i, d.code, d.language)
              /\ http' = [http EXCEPT ![i] =
                    [pc |-> "await", req |-> req,
                     code |-> d.code, language |-> d.language]]

\* the awaited runCodeAnalysis settled: res.json(result), or the catch
\* block's 500
debugCodeResponds(i) ==
    /\ http[i].pc = "await"
    /\ Settled(inv[i].returned)
    /\ http' = [http EXCEPT ![i] =
          [@ EXCEPT !.pc = "responded"] @@
          [res |-> IF inv[i].returned.state = "resolved"
                   THEN [status |-> 200, body |-> inv[i].returned.value]
                   ELSE [status |-> 500,
                         body |-> [error |-> <<"Failed to debug code due to an internal server error.">>,
                                   details |-> inv[i].returned.reason]]]]
    /\ UNCHANGED <<inv, files, now, model, calls, unlinkRefused>>

\* the request is over and nothing of its call is in flight; the next one
\* can be served
requestEnds(i) ==
    /\ http[i].pc \in {"responded", "threw"}
    /\ inv[i].pc = "idle" \/ Quiescent(inv[i])
    /\ calls < MaxCalls
    /\ http' = [http EXCEPT ![i] = NoRequest]
    /\ inv' = [inv EXCEPT ![i] = Idle]
    /\ UNCHANGED <<files, now, model, calls, unlinkRefused>>

NextDebug ==
    \/ \E i \in Procs : debugCode(i)
    \/ \E i \in Procs : debugCodeResponds(i)
    \/ \E i \in Procs : requestEnds(i)
    \/ \E i \in Procs : lintTextSettles(i)
    \/ \E i \in Procs : sendMessageSettles(i)
    \/ \E i \in Procs : writeFileSettles(i)
    \/ \E i \in Procs : catchUnlinkSettles(i)
    \/ \E i \in Procs : childError(i)
    \/ \E i \in Procs : childClose(i)
    \/ \E i \in Procs : closeUnlinkSettles(i)
    \/ \E i \in Procs : errorUnlinkSettles(i)

SpecDebug == Init /\ [][NextDebug]_vars

----------------------------------------------------------------------------
(* Two calls of the subprocess strategies at the same time, without a       *)
(* Gemini model                                                             *)

Procs2 == {1, 2}

InitTwo ==
    /\ inv \in [Procs2 -> {Idle}]
    /\ files = {}
    /\ now = 0
    /\ model = null
    /\ calls = 0
    /\ unlinkRefused = FALSE
    /\ http \in [Procs2 -> {NoRequest}]

\* a call of runCodeAnalysis for Python or C++ code
runSubprocessAnalysis(i) ==
    /\ \E code \in Codes, language \in {S_python, S_cplusplus} :
         runCodeAnalysisWith(i, code, language)
    /\ UNCHANGED http

\* the child closes without diagnostics
quietClose(i) == childCloseFrom(i, {<<>>}, {<<>>})

NextTwo ==
    \/ \E i \in Procs2 : runSubprocessAnalysis(i)
    \/ \E i \in Procs2 : writeFileSettles(i)
    \/ \E i \in Procs2 : catchUnlinkSettles(i)
    \/ \E i \in Procs2 : childError(i)
    \/ \E i \in Procs2 : quietClose(i)
    \/ \E i \in Procs2 : closeUnlinkSettles(i)
    \/ \E i \in Procs2 : errorUnlinkSettles(i)
    \/ \E i \in Procs2 : callEnds(i)

SpecTwo == InitTwo /\ [][NextTwo]_vars

----------------------------------------------------------------------------
(* One call of a subprocess strategy, in which every child emits 'close'    *)
(* in the end (after 'error' too) and every awaited call (writeFile,        *)
(* unlink, sendMessage) comes back in the end                               *)

NextFair ==
    \/ \E i \in Procs : runSubprocessAnalysis(i)
    \/ \E i \in Procs : writeFileSettles(i)
    \/ \E i \in Procs : catchUnlinkSettles(i)
    \/ \E i \in Procs : childError(i)
    \/ \E i \in Procs : childClose(i)
    \/ \E i \in Procs : closeUnlinkSettles(i)
    \/ \E i \in Procs : errorUnlinkSettles(i)
    \/ \E i \in Procs : sendMessageSettles(i)

Fairness ==
    /\ WF_vars(\E i \in Procs : childClose(i))
    /\ WF_vars(\E i \in Procs : sendMessageSettles(i))
    /\ WF_vars(\E i \in Procs : writeFileSettles(i))
    /\ WF_vars(\E i \in Procs : catchUnlinkSettles(i))
    /\ \/ []<>(\A i \in Procs : inv[i].closePc \notin {"unlinkSrc", "unlinkExe"})
       \/ []<><<\E i \in Procs : closeUnlinkSettles(i)>>_vars
    /\ WF_vars(\E i \in Procs : errorUnlinkSettles(i))

SpecFair == Init /\ [][NextFair]_vars /\ Fairness

----------------------------------------------------------------------------
(* Properties                                                               *)

Supported(language) ==
    toLowerCase(language) \in {S_javascript, S_python, S_cplusplus, S_cpp}

Subprocess(r) == Strategy(r) \in {"runPylintAnalysis", "runCppAnalysis"}

\* C1: a call with a tag that is, lower-cased, none of javascript, python,
\* c++, cpp has returned success=false with the unsupported-language error,
\* and has written no file, spawned no child, run no linter and never called
\* getAIExplanation.
C1_UnsupportedFailsFast ==
    \A i \in Procs :
        LET r == inv[i] IN
        (r.pc # "idle" /\ ~Supported(r.language)) =>
            /\ r.returned.state = "resolved"
            /\ r.returned.value.success = FALSE
            /\ r.returned.value.error[1] = "Unsupported language for debugging: "
            /\ r.returned.value.error[2] = r.language
            /\ r.writes = 0 /\ r.spawns = 0 /\ r.lintRuns = 0
            /\ r.aiCalls = 0 /\ r.sends = 0
            /\ r.called = << >> /\ r.child = "none"
            /\ r.tempFilePath = undefined

C1_Witness ==
    \E i \in Procs :
        /\ inv[i].pc = "returned"
        /\ inv[i].language = <<"j","a","v","a">>
        /\ inv[i].returned.state = "resolved"
        /\ calls = 2

ExpectedStrategy(language) ==
    LET tag == toLowerCase(language) IN
    CASE tag = S_javascript -> "runEsLintAnalysis"
      [] tag = S_python -> "runPylintAnalysis"
      [] tag \in {S_cplusplus, S_cpp} -> "runCppAnalysis"

\* C2: a call with a supported tag, in any letter case, has invoked exactly
\* one strategy, the one of its language (its linter run, or its temporary
\* file and child, and none of the others'), and what runCodeAnalysis returns
\* is that strategy's promise: pending while it is, and settled as it is.
C2_ExactlyOneStrategy ==
    \A i \in Procs :
        LET r == inv[i] IN
        (r.pc # "idle" /\ Supported(r.language)) =>
            /\ r.called = <<ExpectedStrategy(r.language)>>
            /\ r.returned = r.promise
            /\ r.lintRuns = (IF r.called[1] = "runEsLintAnalysis" THEN 1 ELSE 0)
            /\ r.writes = (IF r.called[1] = "runEsLintAnalysis" THEN 0 ELSE 1)
            /\ r.spawns <= r.writes
            /\ r.tempFilePath[1] =
                 (CASE r.called[1] = "runEsLintAnalysis" -> "undefined"
                    [] r.called[1] = "runPylintAnalysis" -> "temp_python_code_"
                    [] r.called[1] = "runCppAnalysis" -> "temp_cpp_code_")
            /\ (r.tempExecutablePath # undefined) = (r.called[1] = "runCppAnalysis")

C2_Witness ==
    \E i \in Procs :
        /\ inv[i].language = <<"P","Y","T","H","O","N">>
        /\ inv[i].called = <<"runPylintAnalysis">>
        /\ inv[i].returned.state = "resolved"
        /\ inv[i].returned.value.success
        /\ Len(inv[i].returned.value.analysis[1].messages) = 2

AllOver == \A i \in Procs : inv[i].pc = "idle" \/ Quiescent(inv[i])

\* C3 as stated: when the promise of a subprocess strategy has settled, the
\* temporary files of the call are gone, and when every call is over no
\* temporary file is left.
C3_TempFilesDeletedAtSettle ==
    /\ \A i \in Procs :
         LET r == inv[i] IN
         (Subprocess(r) /\ Settled(r.promise)) =>
             /\ ~existsSync(files, r.tempFilePath)
             /\ ~existsSync(files, r.tempExecutablePath)
    /\ (calls > 0 /\ AllOver) => files = {}

\* C3, amended: when the promise of a subprocess strategy has settled, on
\* whichever path, the unlink of the source file was awaited, and the files of
\* the call are gone unless the system refused one of the call's unlinks (the
\* refusal is swallowed); when every call is over and no unlink was ever
\* refused, no temporary file is left.
C3_TempFilesUnlinkedAtSettle ==
    /\ \A i \in Procs :
         LET r == inv[i] IN
         (Subprocess(r) /\ Settled(r.promise)) =>
             /\ r.tempFilePath \in r.unlinked
             /\ ~r.refused =>
                  /\ ~existsSync(files, r.tempFilePath)
                  /\ ~existsSync(files, r.tempExecutablePath)
    /\ (calls > 0 /\ AllOver /\ ~unlinkRefused) => files = {}

C3_Witness ==
    \E i \in Procs :
        LET r == inv[i] IN
        /\ Strategy(r) = "runCppAnalysis"
        /\ r.exitCode = 0 /\ r.closePc = "done"
        /\ Settled(r.promise)
        /\ r.unlinked = {r.tempFilePath, r.tempExecutablePath}
        /\ ~r.refused /\ ~unlinkRefused
        /\ calls = 2
        /\ files = {}

\* the strategy's own code has run to its end
Finished(r) ==
    IF Strategy(r) = "runEsLintAnalysis" THEN r.pc = "returned"
    ELSE r.closePc \in {"done", "crashed"}

\* the result the strategy's own code produced
Produced(r) ==
    IF Strategy(r) = "runEsLintAnalysis" THEN r.promise.value ELSE r.closeResult

\* C4 as stated: once a strategy that called getAIExplanation has run to its
\* end, its result has success=true and the diagnostics it had collected,
\* whatever became of the explanation step; a step that was not configured
\* or failed leaves the three AI fields null.
C4_ExplanationFailureTransparent ==
    \A i \in Procs :
        LET r == inv[i] IN
        (r.aiCalls > 0 /\ Finished(r)) =>
            /\ "success" \in DOMAIN Produced(r)
            /\ Produced(r).success
            /\ Produced(r).analysis[1].messages = r.formattedMessages
            /\ r.ai \in {"disabled", "throws", "reject", "badjson"} =>
                 /\ Produced(r).aiExplanation = null
                 /\ Produced(r).aiSuggestion = null
                 /\ Produced(r).aiFixedCode = null

\* C5 as stated: once the 'error' handler of a child has started, the promise
\* of the call settles as a rejection only, and the unlink of the source file
\* was awaited before.
C5_SpawnErrorRejects ==
    \A i \in Procs :
        LET r == inv[i] IN
        (r.errorPc # "none" /\ Settled(r.promise)) =>
            /\ r.promise.state = "rejected"
            /\ r.tempFilePath \in r.unlinked

HasSignature(r) ==
    IF Strategy(r) = "runPylintAnalysis"
    THEN includes(r.stderr, S_pylintNotRecognized)
         \/ includes(r.stderr, S_pylintNotFound)
    ELSE includes(r.stderr, S_gppNotRecognized)
         \/ includes(r.stderr, S_gppNotFound)

InstallMessage(r) ==
    IF Strategy(r) = "runPylintAnalysis"
    THEN <<"Pylint is not installed or not in your system's PATH. Please install it (e.g., 'pip install pylint').">>
    ELSE <<"g++ compiler is not installed or not in your system's PATH. Please install it.">>

\* C6: when the stderr a subprocess strategy accumulated holds the
\* tool-not-installed signature, the 'close' handler goes from its unlinks
\* straight to the result success=false with the installation message,
\* whatever stdout and the exit code are: getAIExplanation is not called and,
\* for Python, JSON.parse is not.
C6_ToolMissingShortCircuits ==
    \A i \in Procs :
        LET r == inv[i] IN
        (Subprocess(r) /\ r.child = "closed" /\ HasSignature(r)) =>
            /\ r.closePc \in {"unlinkSrc", "unlinkExe", "done"}
            /\ r.aiCalls = 0 /\ r.sends = 0 /\ r.parses = 0
            /\ r.closePc = "done" =>
                 /\ r.closeResult = [success |-> FALSE, error |-> InstallMessage(r)]
                 /\ r.promise = Resolved(r.closeResult)

C6_Witness ==
    \E i \in Procs :
        LET r == inv[i] IN
        /\ Strategy(r) = "runPylintAnalysis"
        /\ r.stderr = E_pylintSh /\ r.stdout = J_one /\ r.exitCode = 0
        /\ r.closePc = "done"
        /\ r.promise.state = "resolved"
        /\ ~r.promise.value.success

NonEmptyText(t) == \E k \in DOMAIN t : t[k] # ""

\* C7 as stated: every diagnostic of a result resolved with success=true has
\* a non-empty errorExplanation and a non-empty errorSuggestion.
C7_DiagnosticsExplained ==
    \A i \in Procs :
        LET r == inv[i] IN
        (r.promise.state = "resolved" /\ r.promise.value.success) =>
            \A d \in Range(r.promise.value.analysis[1].messages) :
                /\ "errorExplanation" \in DOMAIN d
                /\ "errorSuggestion" \in DOMAIN d
                /\ NonEmptyText(d.errorExplanation)
                /\ NonEmptyText(d.errorSuggestion)

\* C8 as stated: every diagnostic a strategy produced has a severity field,
\* and its value is 'error' or 'warning'.
C8_SeverityNormalized ==
    \A i \in Procs :
        \A d \in Range(inv[i].formattedMessages) :
            /\ "severity" \in DOMAIN d
            /\ d.severity \in {"error", "warning"}

\* the text from a to b of a line
Segment(line, a, b) == SubSeq(line, a, b)
AllDigits(line, a, b) == a <= b /\ \A k \in a..b : IsDigit(line[k])
AllWhiteSpace(line, a, b) == \A k \in a..b : IsWhiteSpace(line[k])
NoTerminator(line, a, b) == \A k \in a..b : ~IsLineTerminator(line[k])

\* the line reads  path : digits : digits : \s* sev : \s* message  with the
\* three colons at c1, c2, c3, the severity word at w and the message, free
\* of line terminators, from m on after all the white space
Located(line, c1, c2, c3, w, sev, m) ==
    LET n == Len(line) c4 == w + Len(sev) IN
    /\ c1 < c2 /\ c2 < c3 /\ c3 < w /\ c4 < m
    /\ line[c1] = ":" /\ line[c2] = ":" /\ line[c3] = ":"
    /\ NoTerminator(line, 1, c1 - 1)
    /\ AllDigits(line, c1 + 1, c2 - 1)
    /\ AllDigits(line, c2 + 1, c3 - 1)
    /\ AllWhiteSpace(line, c3 + 1, w - 1)
    /\ OccursAt(line, sev, w)
    /\ c4 <= n /\ line[c4] = ":"
    /\ AllWhiteSpace(line, c4 + 1, m - 1)
    /\ (m <= n => ~IsWhiteSpace(line[m]))
    /\ NoTerminator(line, m, n)

Colons(line) == {c \in 1..Len(line) : line[c] = ":"}

\* the places the parts of a located line can take after a first colon c1
Places(line, c1) ==
    LET n == Len(line) IN
    UNION { UNION { UNION {
        { <<c2, c3, w, sev, m>> :
            sev \in {s \in {S_error, S_warning} : OccursAt(line, s, w)},
            m \in (w + 1)..(n + 1) }
        : w \in {w \in (c3 + 1)..n : AllWhiteSpace(line, c3 + 1, w - 1)} }
        : c3 \in {c \in Colons(line) : AllDigits(line, c2 + 1, c - 1)} }
        : c2 \in {c \in Colons(line) : AllDigits(line, c1 + 1, c - 1)} }

\* the ways the line matches the located pattern with the path ending
\* before c1
LocatedMatches(line, c1) ==
    {p \in Places(line, c1) : Located(line, c1, p[1], p[2], p[3], p[4], p[5])}

MatchesLocated(line) ==
    \E c1 \in Colons(line) : LocatedMatches(line, c1) # {}

\* d has the line, column, severity and message of the located pattern's
\* match, the one with the shortest path
IsLocatedDiagnostic(d, line) ==
    \E c1 \in Colons(line) :
        /\ \A b \in Colons(line) : b < c1 => LocatedMatches(line, b) = {}
        /\ \E p \in LocatedMatches(line, c1) :
             /\ d.line = parseInt(Segment(line, c1 + 1, p[1] - 1))
             /\ d.column = parseInt(Segment(line, p[1] + 1, p[2] - 1))
             /\ d.severity = (IF p[4] = S_error THEN "error" ELSE "warning")
             /\ d.message = Segment(line, p[5], Len(line))

IsUnlocatedDiagnostic(d, line, severity) ==
    /\ d.line = 0 /\ d.column = 0
    /\ d.severity = severity
    /\ d.message = trim(line)

\* d is the diagnostic the line yields
IsDiagnosticOf(d, line) ==
    IF MatchesLocated(line) THEN IsLocatedDiagnostic(d, line)
    ELSE IF includes(line, S_errorColon)
    THEN IsUnlocatedDiagnostic(d, line, "error")
    ELSE IsUnlocatedDiagnostic(d, line, "warning")

\* the lines that yield a diagnostic, in their order
RECURSIVE YieldingLines(_)
YieldingLines(lines) ==
    IF Len(lines) = 0 THEN << >>
    ELSE (IF \/ MatchesLocated(lines[1])
             \/ includes(lines[1], S_errorColon)
             \/ includes(lines[1], S_warningColon)
          THEN <<lines[1]>> ELSE << >>) \o YieldingLines(Tail(lines))

CloseHasParsed(r) ==
    /\ Strategy(r) = "runCppAnalysis"
    /\ r.closePc \in {"getAI", "done", "crashed"}

\* C9: once the 'close' handler of runCppAnalysis has read stderr, its
\* diagnostics are, in the order of the lines, exactly one for every line that
\* matches the located pattern (with the parsed line, column, severity and
\* message), one unlocated error (line 0, column 0, the trimmed line) for
\* every other line holding 'error:', one unlocated warning for every other
\* line holding 'warning:', and none for any other line.
C9_OneDiagnosticPerLine ==
    \A i \in Procs :
        LET r == inv[i]
            yielding == YieldingLines(split(r.stderr, "\n"))
        IN  CloseHasParsed(r) =>
              /\ Len(r.formattedMessages) = Len(yielding)
              /\ \A k \in 1..Len(yielding) :
                   IsDiagnosticOf(r.formattedMessages[k], yielding[k])

C9_Witness ==
    \E i \in Procs :
        LET r == inv[i] IN
        /\ CloseHasParsed(r)
        /\ Len(split(r.stderr, "\n")) = 2
        /\ Len(r.formattedMessages) = 2
        /\ r.formattedMessages[1].line = 0
        /\ r.formattedMessages[1].severity = "error"
        /\ r.formattedMessages[1].message = <<"a",":"," ","e","r","r","o","r",":"," ","x">>
        /\ r.formattedMessages[2].line = 12
        /\ r.formattedMessages[2].column = 3
        /\ r.formattedMessages[2].severity = "warning"
        /\ r.formattedMessages[2].message = <<"y">>

\* C10: once the 'close' handler of runCppAnalysis has gone past the
\* tool-not-installed test without a signature, it has called
\* getAIExplanation exactly once if it parsed a diagnostic or the exit code is
\* not 0, and not at all otherwise; it ends by resolving with success=true,
\* the diagnostics it parsed and fixedCode equal to the input code, also when
\* every diagnostic is an error.
C10_CppClosePath ==
    \A i \in Procs :
        LET r == inv[i] IN
        (CloseHasParsed(r) /\ ~HasSignature(r)) =>
            /\ r.aiCalls = (IF Len(r.formattedMessages) > 0 \/ r.exitCode # 0
                            THEN 1 ELSE 0)
            /\ r.closePc # "crashed"
            /\ r.closePc = "done" =>
                 /\ r.closeResult.success
                 /\ r.closeResult.analysis[1].messages = r.formattedMessages
                 /\ r.closeResult.fixedCode = r.code

C10_Witness ==
    \E i \in Procs :
        LET r == inv[i] IN
        /\ Strategy(r) = "runCppAnalysis"
        /\ r.closePc = "done" /\ r.errorPc = "none"
        /\ r.exitCode = 1
        /\ Len(r.formattedMessages) = 2
        /\ \A d \in Range(r.formattedMessages) : d.severity = "error"
        /\ r.aiCalls = 1
        /\ r.promise.state = "resolved"
        /\ r.promise.value.success
        /\ r.promise.value.fixedCode = r.code

\* the documents of the model's Pylint that are JSON arrays
PylintJsonArrays == {J_empty, J_one, J_two}

\* C11 as stated: when a tool ran and its output could not be interpreted
\* (Pylint printed something that is no JSON array; g++ exited with a nonzero
\* code and wrote a stderr no line of which gave a diagnostic), the 'close'
\* handler ends with success=false and the raw output as details, without
\* calling getAIExplanation.
C11_UninterpretableOutputFails ==
    \A i \in Procs :
        LET r == inv[i] IN
        /\ ( /\ Strategy(r) = "runPylintAnalysis" /\ r.closePc = "done"
             /\ ~HasSignature(r)
             /\ r.stdout # <<>> /\ r.stdout \notin PylintJsonArrays ) =>
               /\ ~r.closeResult.success
               /\ "details" \in DOMAIN r.closeResult
               /\ r.closeResult.details = r.stdout
               /\ r.aiCalls = 0
        /\ ( /\ Strategy(r) = "runCppAnalysis" /\ r.closePc = "done"
             /\ ~HasSignature(r)
             /\ r.stderr # <<>> /\ r.exitCode # 0
             /\ Len(r.formattedMessages) = 0 ) =>
               /\ ~r.closeResult.success
               /\ "details" \in DOMAIN r.closeResult
               /\ r.closeResult.details = r.stderr
               /\ r.aiCalls = 0

\* the number of messages a linter outcome reports
ReportedMessages(outcome) ==
    IF Len(outcome.results) = 0 THEN 0 ELSE Len(outcome.results[1].messages)

\* the linter supplied no fixed output
NoFixedOutput(outcome) ==
    Len(outcome.results) = 0 \/ outcome.results[1].output = undefined

\* C12: runEsLintAnalysis calls getAIExplanation once if the linter reported a
\* diagnostic and not at all otherwise; whatever the linter comes back with
\* while lintText is awaited, a report of zero violations without fixed output
\* makes the strategy return success=true, an empty diagnostics list,
\* fixedCode equal to the input and the three AI fields null, with no
\* explanation call.
C12_EsLintCallsAIIffDiagnostics ==
    \A i \in Procs :
        LET r == inv[i] IN
        Strategy(r) = "runEsLintAnalysis" =>
            /\ r.pc \in {"getAI", "returned"} =>
                 r.aiCalls = (IF Len(r.formattedMessages) > 0 THEN 1 ELSE 0)
            /\ r.pc = "lintText" =>
                 \A outcome \in LintOutcomes :
                     LET q == EsLintAfterLint(r, outcome, model # null) IN
                     ~outcome.threw =>
                         /\ Len(q.formattedMessages) = ReportedMessages(outcome)
                         /\ q.aiCalls = (IF ReportedMessages(outcome) > 0
                                         THEN 1 ELSE 0)
                         /\ (ReportedMessages(outcome) = 0 /\ NoFixedOutput(outcome)) =>
                              /\ q.pc = "returned" /\ q.sends = 0
                              /\ q.promise = Resolved(
                                   [success       |-> TRUE,
                                    analysis      |-> << [filePath |-> S_text,
                                                          messages |-> << >>] >>,
                                    fixedCode     |-> r.code,
                                    aiFixedCode   |-> null,
                                    aiExplanation |-> null,
                                    aiSuggestion  |-> null])

C12_Witness ==
    \E i \in Procs :
        LET r == inv[i] IN
        /\ Strategy(r) = "runEsLintAnalysis"
        /\ r.pc = "returned" /\ r.lintRuns = 1
        /\ r.returned.state = "resolved"
        /\ r.returned.value.success
        /\ r.returned.value.analysis[1].messages = << >>
        /\ r.returned.value.fixedCode = r.code
        /\ r.returned.value.aiExplanation = null
        /\ r.aiCalls = 0
        /\ model # null

\* the strategy ended with success=true and the three AI fields null
EndedWithNullExplanation(r) ==
    /\ Finished(r) /\ r.closePc # "crashed"
    /\ "success" \in DOMAIN Produced(r)
    /\ Produced(r).success
    /\ Produced(r).aiExplanation = null
    /\ Produced(r).aiSuggestion = null
    /\ Produced(r).aiFixedCode = null

PylintArrayLength(stdout) ==
    CASE stdout = <<>> -> 0
      [] stdout = J_empty -> 0
      [] stdout = J_one -> 1
      [] stdout = J_two -> 2

\* C14 as stated: when the 'close' handler of runPylintAnalysis has ended and
\* stderr holds no not-installed signature, then with a non-empty stderr and
\* an empty stdout its result is success=false with the trimmed stderr in the
\* error, and otherwise, stdout being a JSON array or empty, its result is
\* success=true with one diagnostic for each element, fixedCode equal to the
\* input, and getAIExplanation called only for a non-empty list.
C14_PylintClosePath ==
    \A i \in Procs :
        LET r == inv[i] IN
        ( /\ Strategy(r) = "runPylintAnalysis" /\ r.closePc = "done"
          /\ ~HasSignature(r) ) =>
            IF r.stderr # <<>> /\ r.stdout = <<>>
            THEN r.closeResult =
                   [success |-> FALSE,
                    error |-> <<"Pylint encountered an error: ", trim(r.stderr)>>]
            ELSE (r.stdout = <<>> \/ r.stdout \in PylintJsonArrays) =>
                   /\ r.closeResult.success
                   /\ Len(r.closeResult.analysis[1].messages) =
                        PylintArrayLength(r.stdout)
                   /\ r.closeResult.fixedCode = r.code
                   /\ r.aiCalls = (IF PylintArrayLength(r.stdout) > 0
                                   THEN 1 ELSE 0)

C16_LinterThrowIsFatal ==
    \A i \in Procs :
        LET r == inv[i] IN
        /\ ( /\ Strategy(r) = "runEsLintAnalysis" /\ r.pc = "returned"
             /\ ~r.promise.value.success ) =>
               /\ r.promise.value =
                    [success |-> FALSE,
                     error |-> <<"Failed to run ESLint. Check server logs for details.">>,
                     details |-> <<"Could not find config file.">>]
               /\ r.aiCalls = 0 /\ r.lintRuns = 1
        /\ r.pc = "lintText" =>
             \A o \in LintOutcomes :
                 o.threw =>
                     LET s == EsLintAfterLint(r, o, model # null) IN
                     /\ s.pc = "returned"
                     /\ s.promise.state = "resolved"
                     /\ ~s.promise.value.success
                     /\ "details" \in DOMAIN s.promise.value
                     /\ s.promise.value.details = o.message
                     /\ s.aiCalls = 0

C16_Witness ==
    \E i \in Procs :
        /\ Strategy(inv[i]) = "runEsLintAnalysis" /\ inv[i].pc = "returned"
        /\ ~inv[i].promise.value.success
        /\ inv[i].promise.value.details = <<"Could not find config file.">>
        /\ inv[i].lintRuns = 1

\* the lower-cased extension of a file name: what follows its last '.'
ExtensionOf(name) ==
    LET dots == {k \in 1..Len(name) : name[k] = "."}
        from == IF dots = {} THEN 1
                ELSE (CHOOSE k \in dots : \A j \in dots : j <= k) + 1
    IN  toLowerCase(SubSeq(name, from, Len(name)))

\* the tag the mapping of extensions gives
TagOfExtension(e) ==
    CASE e = <<"j","s">> -> S_javascript
      [] e = <<"p","y">> -> S_python
      [] e \in {<<"c","p","p">>, <<"c","x","x">>, <<"c","c">>} -> S_cplusplus
      [] OTHER -> S_javascript

\* debugCode has resolved the language of the request it serves
LanguageResolved(h) == h.pc # "idle" /\ "language" \in DOMAIN h

\* the tag of an upload comes from the extension alone and is supported, and
\* the call of runCodeAnalysis is made with the resolved tag
UploadTagFromExtension(i) ==
    LET h == http[i] IN
    /\ ( LanguageResolved(h) /\ "codeFile" \in DOMAIN h.req.files ) =>
         /\ h.language = TagOfExtension(ExtensionOf(h.req.files.codeFile.name))
         /\ Supported(h.language)
    /\ ( LanguageResolved(h) /\ inv[i].pc # "idle" ) =>
         inv[i].language = h.language

PairOf(e) == <<e.explanation, e.suggestion>>

\* the table entries whose key is the rule identifier / occurs in the message
ExactEntries(id) ==
    {n \in DOMAIN errorExplanations : errorExplanations[n].key = id}
SubstringEntries(message) ==
    {n \in DOMAIN errorExplanations :
        includes(message, errorExplanations[n].key)}
First(S) == CHOOSE n \in S : \A k \in S : n <= k

\* the diagnostics runEsLintAnalysis has formatted
EsLintFormatted(r) ==
    IF Strategy(r) = "runEsLintAnalysis" /\ r.pc # "lintText"
    THEN {r.formattedMessages[k] : k \in DOMAIN r.formattedMessages}
    ELSE {}

\* C18 as stated: a diagnostic of runEsLintAnalysis has the pair of the table
\* entry of its rule identifier when there is one; every other diagnostic,
\* whether its rule identifier is set or not, has the pair of the first entry
\* whose key occurs in its message, and the generic pair only when no key
\* occurs in it.
C18_SubstringForEveryUnmatched ==
    \A i \in Procs : \A d \in EsLintFormatted(inv[i]) :
        <<d.errorExplanation, d.errorSuggestion>> =
            IF ExactEntries(d.ruleId) # {}
            THEN PairOf(errorExplanations[First(ExactEntries(d.ruleId))])
            ELSE IF SubstringEntries(d.message) # {}
            THEN PairOf(errorExplanations[First(SubstringEntries(d.message))])
            ELSE PairOf(defaultExplanation)

\* C18: a diagnostic of runEsLintAnalysis has the pair of the table entry of
\* its rule identifier when there is one; otherwise a diagnostic without a
\* rule identifier has the pair of the first entry whose key occurs in its
\* message; a diagnostic whose rule identifier is set but not in the table,
\* and one in whose message no key occurs, has the generic pair.
C18_LookupOrder ==
    \A i \in Procs : \A d \in EsLintFormatted(inv[i]) :
        <<d.errorExplanation, d.errorSuggestion>> =
            IF ExactEntries(d.ruleId) # {}
            THEN PairOf(errorExplanations[First(ExactEntries(d.ruleId))])
            ELSE IF d.ruleId = null /\ SubstringEntries(d.message) # {}
            THEN PairOf(errorExplanations[First(SubstringEntries(d.message))])
            ELSE PairOf(defaultExplanation)

C18_Witness ==
    \E i \in Procs :
        LET r == inv[i] IN
        /\ Strategy(r) = "runEsLintAnalysis" /\ r.pc = "returned"
        /\ Len(r.formattedMessages) = 2
        /\ r.formattedMessages[1].ruleId = R_redeclare
        /\ r.formattedMessages[1].errorExplanation = defaultExplanation.explanation
        /\ r.formattedMessages[2].ruleId = null
        /\ r.formattedMessages[2].message = M_parseToken
        /\ r.formattedMessages[2].errorExplanation = errorExplanations[2].explanation

\* the position of the '}' that closes the '{' nesting opened before k, 0
\* when there is none
RECURSIVE ClosingBrace(_, _, _)
ClosingBrace(text, k, depth) ==
    IF k > Len(text) THEN 0
    ELSE IF text[k] = "{" THEN ClosingBrace(text, k + 1, depth + 1)
    ELSE IF text[k] = "}"
    THEN IF depth = 1 THEN k ELSE ClosingBrace(text, k + 1, depth - 1)
    ELSE ClosingBrace(text, k + 1, depth)

\* the text C19 has parsed: the fenced block, else the span from the first
\* '{' to its matching close
IsolatedJson(text) ==
    IF jsonMatch(text).matched
    THEN [found |-> TRUE, text |-> jsonMatch(text).group]
    ELSE LET first == indexOf(text, "{") + 1
             close == IF first = 0 THEN 0 ELSE ClosingBrace(text, first + 1, 1)
         IN  IF close = 0 THEN [found |-> FALSE]
             ELSE [found |-> TRUE, text |-> SubSeq(text, first, close)]

\* the value C19 has getAIExplanation return for a text
StatedExplanation(text) ==
    LET isolated == IsolatedJson(text) IN
    IF isolated.found /\ ~JSONparseObject(isolated.text).threw
    THEN LET parsedResponse == JSONparseObject(isolated.text).value IN
         [aiExplanation |-> parsedResponse.explanation,
          aiSuggestion  |-> parsedResponse.suggestion,
          aiFixedCode   |-> parsedResponse.fixedCode]
    ELSE rawTextExplanation(text)

\* the texts on which getAIExplanation returns another value
DivergentTexts ==
    {a.reply.text : a \in {x \in AIAnswers :
        /\ ~x.reply.rejected
        /\ x.value # StatedExplanation(x.reply.text)}}

\* chat.sendMessage is awaited
SendMessagePending(r) == r.pc = "getAI" \/ r.closePc = "getAI"

\* C19 as stated: whatever text the pending Gemini call comes back with,
\* getAIExplanation returns the fields of the JSON object of the fenced json
\* block, else of the span from the first '{' to its matching close, and
\* whenever that gives no valid JSON object it returns the raw text as
\* aiExplanation with the placeholder aiSuggestion and aiFixedCode null.
C19_ParseOrderWithRawFallback ==
    \A i \in Procs :
        SendMessagePending(inv[i]) => DivergentTexts = {}

\* C20: in runPylintAnalysis and runCppAnalysis, once fs.writeFile has failed,
\* no subprocess is spawned and getAIExplanation is not called for the rest of
\* the call, and the promise resolves with success=false, the strategy's
\* 'Failed to prepare ... code for analysis.' error and the write error's
\* message as details.
C20_WriteFailureBeforeSpawn ==
    \A i \in Procs :
        LET r == inv[i] IN
        r.caught = E_writeFile =>
            /\ Subprocess(r)
            /\ r.spawns = 0 /\ r.child = "none"
            /\ r.closePc = "none" /\ r.errorPc = "none"
            /\ r.aiCalls = 0 /\ r.sends = 0
            /\ r.pc \in {"catchUnlink", "catchUnlinkExe", "returned"}
            /\ r.pc = "returned" =>
                 /\ r.promise =
                      [state |-> "resolved",
                       value |-> [success |-> FALSE,
                                  error |-> IF Strategy(r) = "runCppAnalysis"
                                            THEN <<"Failed to prepare C++ code for analysis.">>
                                            ELSE <<"Failed to prepare Python code for analysis.">>,
                                  details |-> E_writeFile]]
                 /\ r.returned = r.promise

C20_Witness ==
    \E i \in Procs :
        /\ Strategy(inv[i]) = "runCppAnalysis"
        /\ inv[i].caught = E_writeFile
        /\ inv[i].pc = "returned"
        /\ inv[i].promise.state = "resolved"
        /\ inv[i].promise.value.details = E_writeFile
        /\ inv[i].spawns = 0

\* a call without the record that one of its unlinks was refused
Unrefused(s) == [s EXCEPT !.refused = FALSE]

\* C21: wherever a subprocess strategy awaits an unlink (in the 'close'
\* handler, the 'error' handler or the catch block), the handler goes on in
\* the same way, with the same result and the same promise, whether the
\* unlink succeeds or fails; and a call one of whose unlinks was refused has
\* no result other than those of its tool output.
C21_UnlinkFailureSwallowed ==
    \A i \in Procs :
        LET r == inv[i] IN
        /\ r.closePc \in {"unlinkSrc", "unlinkExe"} =>
             Unrefused(CloseAfterUnlink(r, files, TRUE, model # null)) =
             Unrefused(CloseAfterUnlink(r, files, FALSE, model # null))
        /\ r.errorPc \in {"unlinkSrc", "unlinkExe"} =>
             Unrefused(ErrorAfterUnlink(r, files, TRUE)) =
             Unrefused(ErrorAfterUnlink(r, files, FALSE))
        /\ r.pc \in {"catchUnlink", "catchUnlinkExe"} =>
             Unrefused(CatchAfterUnlink(r, files, TRUE)) =
             Unrefused(CatchAfterUnlink(r, files, FALSE))
        /\ (r.refused /\ r.closePc = "done" /\ ~r.closeResult.success) =>
             \/ HasSignature(r)
             \/ /\ Strategy(r) = "runPylintAnalysis"
                /\ r.closeResult.error \in
                     {<<"Failed to parse Pylint output.">>,
                      <<"Pylint encountered an error: ", trim(r.stderr)>>}

C21_Witness ==
    \E i \in Procs :
        /\ Strategy(inv[i]) = "runCppAnalysis"
        /\ inv[i].refused /\ inv[i].closePc = "done"
        /\ inv[i].closeResult.success
        /\ inv[i].promise = Resolved(inv[i].closeResult)
        /\ existsSync(files, inv[i].tempFilePath)

\* the call holds its temp source file: from the call of fs.writeFile until
\* its child has closed or failed
OwnsTempFile(r) ==
    /\ Subprocess(r)
    /\ r.pc \in {"writeFile", "spawned"}
    /\ r.child \in {"none", "running"}

\* the tool of the call has been spawned and has not closed: it reads the
\* temp source file
ToolReads(r) == Subprocess(r) /\ r.child = "running"

\* two calls hold one temp source path
C22_SharedPath ==
    \E i, j \in Procs2 :
        /\ i # j /\ Strategy(inv[i]) = Strategy(inv[j])
        /\ OwnsTempFile(inv[i]) /\ OwnsTempFile(inv[j])
        /\ inv[i].tempFilePath = inv[j].tempFilePath

\* the file a running tool reads holds the code of another call
C22_Overwritten ==
    \E i \in Procs2 :
        /\ ToolReads(inv[i])
        /\ \E f \in files : f.path = inv[i].tempFilePath /\ f.data # inv[i].code

\* the file a running tool reads was deleted
C22_Deleted ==
    \E i \in Procs2 :
        /\ ToolReads(inv[i])
        /\ ~existsSync(files, inv[i].tempFilePath)

\* C22 as stated: two calls of the same subprocess strategy that run at the
\* same time never hold the same temp source path, the file a running tool
\* reads always holds the code of its own call, and it is not deleted while
\* the tool runs.
C22_TempFilesRequestSafe ==
    /\ ~C22_SharedPath
    /\ ~C22_Overwritten
    /\ ~C22_Deleted

\* C23: within one call of runCodeAnalysis the linter is run or a child is
\* spawned at most once in all, the temp source file is written at most once,
\* getAIExplanation is called at most once and sends at most one prompt; and
\* once the linter has thrown, the spawn has failed or the explanation call
\* has failed, no linter run, spawn or Gemini call is pending or made again.
C23_NoRetries ==
    \A i \in Procs :
        LET r == inv[i] IN
        /\ r.lintRuns + r.spawns <= 1
        /\ r.writes <= 1
        /\ r.aiCalls <= 1
        /\ r.sends <= r.aiCalls
        /\ r.ai \in {"reject", "badjson", "throws"} =>
             /\ ~SendMessagePending(r)
             /\ r.aiCalls = 1
             /\ r.lintRuns + r.spawns = 1
        /\ r.child = "errored" \/ r.errorPc # "none" =>
             /\ r.spawns = 1 /\ r.pc = "spawned"
        /\ ( /\ Strategy(r) = "runEsLintAnalysis" /\ r.pc = "returned"
             /\ ~r.promise.value.success ) =>
             /\ r.lintRuns = 1 /\ r.sends <= 1

C23_Witness ==
    \E i \in Procs :
        /\ Strategy(inv[i]) = "runCppAnalysis"
        /\ inv[i].ai = "reject" /\ inv[i].closePc = "done"
        /\ inv[i].spawns = 1 /\ inv[i].aiCalls = 1 /\ inv[i].sends = 1
        /\ inv[i].errorPc = "done"

\* the promise of a subprocess strategy is resolved with an analysis result
HasAnalysisResult(r) ==
    /\ Subprocess(r)
    /\ r.promise.state = "resolved"
    /\ "analysis" \in DOMAIN r.promise.value

C25_BothHandlersReject ==
    \A i \in Procs :
        LET r == inv[i] IN
        (r.errorPc # "none" /\ r.closePc # "none") =>
            /\ r.aiCalls = 0
            /\ Settled(r.promise) => r.promise.state = "rejected"


\* the characters String.prototype.trim removes, of those the requests hold
Blank(code) == \A k \in 1..Len(code) : code[k] \in {" ", "\n"}

\* the response debugCode owes to the request it has finished with
ResponseOwed(h, r) ==
    IF "codeFile" \notin DOMAIN h.req.files /\ h.req.body.code.type # "string"
    THEN /\ h.res = [status |-> 400,
                     body |-> [error |-> <<"No code provided for debugging or invalid input format.">>]]
         /\ r.pc = "idle"
    ELSE IF Blank(h.code)
    THEN /\ h.res = [status |-> 400,
                     body |-> [error |-> <<"Provided code is empty or contains only whitespace. Please provide valid code.">>]]
         /\ r.pc = "idle"
    ELSE /\ Settled(r.returned)
         /\ r.returned.state = "resolved" =>
              h.res = [status |-> 200, body |-> r.returned.value]
         /\ r.returned.state = "rejected" =>
              h.res = [status |-> 500,
                       body |-> [error |-> <<"Failed to debug code due to an internal server error.">>,
                                 details |-> r.returned.reason]]

\* C26 as stated: every request debugCode has finished with got exactly one
\* response: 400 when neither a file nor a code string came, 400 when the code
\* is empty or blank (runCodeAnalysis was not called), the strategy's result
\* with status 200 when runCodeAnalysis resolved, 500 with the error message
\* as details when it rejected; a response once sent is never replaced.
C26_OneResponsePerRequest ==
    /\ [](\A i \in Procs :
            LET h == http[i] IN
            /\ h.pc = "await" => "res" \notin DOMAIN h
            /\ h.pc \notin {"idle", "await"} =>
                 /\ "res" \in DOMAIN h
                 /\ ResponseOwed(h, inv[i]))
    /\ [][\A i \in Procs :
            "res" \in DOMAIN http[i] =>
                http'[i] \in {http[i], NoRequest}]_vars

====
